---- MODULE Spec2Model ----
(***************************************************************************)
(* State-machine model of heaterController.py: the control thread          *)
(* (control_logic_thread_func and the optimize_pump_speed sweep it runs),  *)
(* the pump actuator (set_pump_speed / stop_pump), and the HTTP handlers   *)
(* that change the configuration while the control thread runs.            *)
(*                                                                         *)
(* Temperatures are integers in milli-degrees Celsius, the unit of the     *)
(* sensor's raw "t=" payload (read_temp_c divides it by 1000).  Pump       *)
(* speeds are integer percent.  Time advances in the 1-second slices of    *)
(* time.sleep(1).                                                          *)
(***************************************************************************)
EXTENDS Integers, Sequences, FiniteSets, TLC

VARIABLES
    current_settings,        \* the active configuration dict
    app_status,              \* the published status dict
    pwm_pump,                \* "None" before setup_pwm, "PWM" after
    pwm_duty,                \* duty cycle last given to ChangeDutyCycle / start
    control_thread_running,  \* the global running flag
    pc,                      \* position of the control thread
    control_mode,            \* control thread local: mode read at line 414
    due,                     \* control thread local: current_time - last_control_cycle_time >= loop_interval
    elapsed,                 \* real time - last_control_cycle_time, capped
    since_top,               \* real time - current_time of this iteration, capped
    opt,                     \* locals of optimize_pump_speed
    cyc,                     \* history: what the current loop iteration read and did
    eng,                     \* history: what the current engine invocation did
    http,                    \* position of the in-flight /settings POST
    http_count,              \* requests submitted so far
    fx,                      \* inputs/outputs of a directly applied function
    log_pending,             \* log_buffer is non-empty
    log_buffer,              \* the pending LogRecords, oldest first
    temperature_history,     \* the history deque: its maxlen and its points, oldest first
    manual_ticked,           \* history: a time.sleep(1) has ended since set_control_mode chose manual
    stop_pc                  \* history: where the control thread was when shutdown was requested

vars == << current_settings, app_status, pwm_pump, pwm_duty, control_thread_running,
           pc, control_mode, due, elapsed, since_top, opt, cyc, eng, http, http_count, fx,
           log_pending, log_buffer, temperature_history, manual_ticked, stop_pc >>

----------------------------------------------------------------------------
(* Values *)

\* Python None as returned by read_temp_c: outside the range of any reading
None == -1000000

Max(a, b) == IF a >= b THEN a ELSE b
Min(a, b) == IF a <= b THEN a ELSE b

\* isinstance(a, float) and isinstance(b, float): both readings were delivered
BothFloat(a, b) == a # None /\ b # None

\* Python truthiness of an optional float: None and 0.0 are both falsy
Truthy(t) == t # None /\ t # 0

\* DEFAULT_SETTINGS thresholds, in milli-degrees Celsius
DELTA_T_ON == 4000
DELTA_T_OFF == 1500
MIN_INLET_TEMP_TO_RUN == 10000
MAX_OUTLET_TEMP_CUTOFF == 75000
\* current_max_delta_t_c_this_cycle starts at -100.0
INITIAL_MAX_DELTA_T == -100000

\* Readings the inlet and outlet sensors can deliver
InletReadings == {None, 0, 5000, 30000}
OutletReadings == {None, 11000, 36000, 80000}

\* Configurations the settings file / the settings form supply
\* Forms the settings page receives: << MIN_PUMP_SPEED, MIN_INLET_TEMP_TO_RUN >>
SettingsForms == { << 30, MIN_INLET_TEMP_TO_RUN >>, << 20, 0 >> }
ManualSpeedChoices == {0, 25, 100}
MaxLoopInterval == 2
\* Requests the presentation layer submits during one run
MaxHttpRequests == 2

InitialSettings ==
    [ MIN_PUMP_SPEED |-> 20, MAX_PUMP_SPEED |-> 30, PUMP_SPEED_STEP |-> 10,
      STABILIZATION_TIME_S |-> 1, LOOP_INTERVAL_S |-> MaxLoopInterval,
      DELTA_T_ON |-> DELTA_T_ON, DELTA_T_OFF |-> DELTA_T_OFF,
      MIN_INLET_TEMP_TO_RUN |-> MIN_INLET_TEMP_TO_RUN,
      MAX_OUTLET_TEMP_CUTOFF |-> MAX_OUTLET_TEMP_CUTOFF,
      CONTROL_MODE |-> "auto", MANUAL_PUMP_SPEED_SETTING |-> 25,
      MAX_PUMP_FLOW_RATE_LPM |-> 20, MAX_HISTORY_POINTS |-> 2,
      DISPLAY_TEMP_UNIT |-> "C" ]

\* The display string "N/A"; a number is shown as val / 10^digits
NA == [na |-> TRUE, val |-> 0, digits |-> 0]

\* f"{temp_c:.2f}": the value in hundredths of a degree, rounded half-even
RoundDiv(n, d) ==
    LET q == n \div d
        r == n % d
    IN  IF 2 * r < d THEN q
        ELSE IF 2 * r > d THEN q + 1
        ELSE IF q % 2 = 0 THEN q ELSE q + 1

\* (temp_c * 9/5) + 32, in units of 1/5000 degree Fahrenheit so that it is exact
celsius_to_fahrenheit(temp_c) == temp_c * 9 + 160000

convert_temp_for_display(temp_c, target_unit) ==
    IF temp_c = None THEN NA
    ELSE IF target_unit = "F"
         THEN [na |-> FALSE, val |-> RoundDiv(celsius_to_fahrenheit(temp_c), 500), digits |-> 1]
         ELSE [na |-> FALSE, val |-> RoundDiv(temp_c, 10), digits |-> 2]

\* collections.deque(maxlen=n)
EmptyDeque(n) == [maxlen |-> n, items |-> << >>]

store_vars == << log_buffer, temperature_history >>

----------------------------------------------------------------------------
(* PumpActuator: set_pump_speed, stop_pump *)

\* target_speed (line 240)
TargetSpeed(speed_percent_target) == Max(0, Min(100, speed_percent_target))

\* Mutant: a running pump is clamped from above only
ActualDutyCycleWithoutMinimum(cfg, speed_percent_target) ==
    IF TargetSpeed(speed_percent_target) > 0
    THEN Min(cfg.MAX_PUMP_SPEED, TargetSpeed(speed_percent_target))
    ELSE 0

\* actual_duty_cycle (lines 241-243)
ActualDutyCycle(cfg, speed_percent_target) ==
    IF TargetSpeed(speed_percent_target) > 0
    THEN Max(cfg.MIN_PUMP_SPEED, Min(cfg.MAX_PUMP_SPEED, TargetSpeed(speed_percent_target)))
    ELSE 0

\* update_status(system_message=m)
WithMessage(S, m) == [S EXCEPT !.system_message = m]

\* app_status after set_pump_speed(x)
set_pump_speed_status(S, cfg, pwm, x) ==
    IF pwm = "None" THEN WithMessage(S, "pwm_not_initialized")
    ELSE [S EXCEPT !.pump_speed = ActualDutyCycle(cfg, x),
                   !.target_pump_speed = TargetSpeed(x)]

\* hardware duty after set_pump_speed(x)
set_pump_speed_duty(duty, cfg, pwm, x) ==
    IF pwm = "None" THEN duty ELSE ActualDutyCycle(cfg, x)

\* app_status after stop_pump()
stop_pump_status(S, cfg, pwm) ==
    WithMessage(set_pump_speed_status(S, cfg, pwm, 0), "pump_stopped")

----------------------------------------------------------------------------
(* Control decisions *)

\* Mutant: the hysteresis checks placed before the cutoff check
AutoDecisionHysteresisFirst(cfg, inlet, outlet, pump_on) ==
    IF Truthy(inlet) /\ Truthy(outlet)
    THEN IF pump_on /\ outlet - inlet < cfg.DELTA_T_OFF THEN "dt_off_stop"
         ELSE IF ~pump_on /\ outlet - inlet >= cfg.DELTA_T_ON THEN "dt_on_opt"
         ELSE IF pump_on THEN "reopt"
         ELSE IF outlet > cfg.MAX_OUTLET_TEMP_CUTOFF THEN "safety"
         ELSE IF inlet < cfg.MIN_INLET_TEMP_TO_RUN THEN "min_inlet"
         ELSE "insufficient"
    ELSE "sensor_error"

\* Mutant: one threshold, the off state starts a sweep at DELTA_T_OFF already
AutoDecisionSingleThreshold(cfg, inlet, outlet, pump_on) ==
    IF Truthy(inlet) /\ Truthy(outlet)
    THEN IF outlet > cfg.MAX_OUTLET_TEMP_CUTOFF THEN "safety"
         ELSE IF inlet < cfg.MIN_INLET_TEMP_TO_RUN THEN "min_inlet"
         ELSE IF pump_on /\ outlet - inlet < cfg.DELTA_T_OFF THEN "dt_off_stop"
         ELSE IF ~pump_on /\ outlet - inlet >= cfg.DELTA_T_OFF THEN "dt_on_opt"
         ELSE IF pump_on THEN "reopt"
         ELSE "insufficient"
    ELSE "sensor_error"

\* The branch the Auto evaluation takes for one reading pair (lines 435-457)
AutoDecision(cfg, inlet, outlet, pump_on) ==
    IF Truthy(inlet) /\ Truthy(outlet)
    THEN IF outlet > cfg.MAX_OUTLET_TEMP_CUTOFF THEN "safety"
         ELSE IF inlet < cfg.MIN_INLET_TEMP_TO_RUN THEN "min_inlet"
         ELSE IF pump_on /\ outlet - inlet < cfg.DELTA_T_OFF THEN "dt_off_stop"
         ELSE IF ~pump_on /\ outlet - inlet >= cfg.DELTA_T_ON THEN "dt_on_opt"
         ELSE IF pump_on THEN "reopt"
         ELSE "insufficient"
    ELSE "sensor_error"

\* Mutant: the sensor-error branch reports the fault without stopping the pump
AutoStopsNotOnFault(d, pump_on) ==
    \/ d \in {"safety", "dt_off_stop"}
    \/ d = "min_inlet" /\ pump_on

\* Branches that call stop_pump()
AutoStops(d, pump_on) ==
    \/ d \in {"safety", "dt_off_stop", "sensor_error"}
    \/ d = "min_inlet" /\ pump_on

\* Branches that call optimize_pump_speed()
AutoOptimizes(d) == d \in {"dt_on_opt", "reopt"}

\* The final system_message of each branch
AutoMessage(d) ==
    CASE d = "safety" -> "auto_safety"
      [] d = "min_inlet" -> "auto_min_inlet"
      [] d = "dt_off_stop" -> "auto_dt_off"
      [] d = "dt_on_opt" -> "auto_dt_on_optimizing"
      [] d = "reopt" -> "auto_reoptimizing"
      [] d = "insufficient" -> "auto_insufficient"
      [] OTHER -> "auto_sensor_error"

----------------------------------------------------------------------------
(* OptimizationEngine helpers *)

\* list(range(a, b, s)) as a set, for a step other than 0 (range raises for 0)
PyRange(a, b, s) ==
    IF s > 0 THEN { a + k * s : k \in 0 .. ((b - a - 1) \div s) }
    ELSE { a - k * (-s) : k \in 0 .. ((a - b - 1) \div (-s)) }

\* range() of line 354 raises ValueError
RangeRaises(cfg) == cfg.PUMP_SPEED_STEP = 0

RECURSIVE SortedSeq(_)
SortedSeq(S) ==
    IF S = {} THEN << >>
    ELSE LET m == CHOOSE x \in S : \A y \in S : x <= y
         IN  << m >> \o SortedSeq(S \ {m})

\* start_speed (lines 339-344); last is optimal_pump_speed_found
StartSpeed(cfg, last) ==
    IF last # 0 /\ cfg.MIN_PUMP_SPEED <= last /\ last <= cfg.MAX_PUMP_SPEED
    THEN Max(cfg.MIN_PUMP_SPEED, last - 2 * cfg.PUMP_SPEED_STEP)
    ELSE cfg.MIN_PUMP_SPEED

\* speeds_to_check (lines 354-355)
SpeedsToCheck(cfg, start_speed) ==
    SortedSeq(PyRange(start_speed, cfg.MAX_PUMP_SPEED + 1, cfg.PUMP_SPEED_STEP)
              \cup PyRange(cfg.MIN_PUMP_SPEED, start_speed, cfg.PUMP_SPEED_STEP))

\* Mutant: the entry check tests only for a missing reading
OptAbortsOnlyWhenMissing(cfg, initial_inlet) == initial_inlet = None

\* The entry check of line 350
OptAborts(cfg, initial_inlet) ==
    initial_inlet = None \/ initial_inlet < cfg.MIN_INLET_TEMP_TO_RUN

\* The sample of a candidate speed counts (lines 365, 367)
SampleValid(in_temp, out_temp) == Truthy(in_temp) /\ Truthy(out_temp)

\* The safety stop inside the sweep (lines 367, 370)
SweepSafetyStop(cfg, in_temp, out_temp) ==
    SampleValid(in_temp, out_temp) /\ out_temp > cfg.MAX_OUTLET_TEMP_CUTOFF

----------------------------------------------------------------------------
(* History records *)

NoOpt == [speeds |-> << >>, i |-> 0, max_dt |-> INITIAL_MAX_DELTA_T,
          opt_speed |-> 0, stab_left |-> 0]

NoCyc == [mode |-> "none", read |-> FALSE, inlet |-> None, outlet |-> None,
          pump_on |-> FALSE, engine |-> FALSE, over |-> FALSE,
          cfg |-> InitialSettings]

NoEng == [entered |-> FALSE, entry_bad |-> FALSE, entry_opt |-> 0, entry_max |-> NA,
          cmds |-> 0, samples |-> 0, over_seen |-> FALSE, fault_seen |-> FALSE,
          outcome |-> "none"]

\* A reading pair was taken: was any outlet of this iteration above the cutoff
OverAfter(prev, cfg, outlet) ==
    prev \/ (outlet # None /\ outlet > cfg.MAX_OUTLET_TEMP_CUTOFF)

Tick(t) == Min(MaxLoopInterval, t + 1)

----------------------------------------------------------------------------
(* Initial state: __main__ has run load_settings(), started the control    *)
(* thread and published "Web server started"                               *)

Init ==
    /\ current_settings = InitialSettings
    /\ app_status = [ pump_speed |-> 0, target_pump_speed |-> 0,
                      system_message |-> "web_server_started",
                      optimal_pump_speed_found |-> InitialSettings.MIN_PUMP_SPEED,
                      max_delta_t_found_display |-> NA,
                      control_mode |-> InitialSettings.CONTROL_MODE ]
    /\ pwm_pump = "None"
    /\ pwm_duty = 0
    /\ control_thread_running = TRUE
    /\ pc = "start"
    /\ control_mode = "auto"
    /\ due = FALSE
    /\ elapsed = 0
    /\ since_top = 0
    /\ opt = NoOpt
    /\ cyc = NoCyc
    /\ eng = NoEng
    /\ http = "idle"
    /\ http_count = 0
    /\ fx = [x |-> 0, called |-> FALSE]
    /\ log_pending = FALSE
    /\ log_buffer = << >>
    /\ temperature_history = EmptyDeque(InitialSettings.MAX_HISTORY_POINTS)
    /\ manual_ticked = FALSE
    /\ stop_pc = "none"

----------------------------------------------------------------------------
(* Control thread: control_logic_thread_func *)

thread_vars == << pwm_pump, pwm_duty, pc, control_mode, due, elapsed, since_top, opt >>
history_vars == << cyc, eng >>

\* Lines 390-398: load_settings, discover_sensors, setup_pwm
Startup ==
    /\ pc = "start"
    /\ \E sensors_found \in BOOLEAN :
         IF sensors_found
         THEN /\ pwm_pump' = "PWM"
              /\ pwm_duty' = 0
              /\ app_status' =
                   [app_status EXCEPT
                      !.optimal_pump_speed_found = current_settings.MIN_PUMP_SPEED,
                      !.control_mode = current_settings.CONTROL_MODE,
                      !.pump_speed = 0, !.target_pump_speed = 0,
                      !.system_message = "pwm_initialized"]
              /\ elapsed' = Min(MaxLoopInterval, current_settings.LOOP_INTERVAL_S)
              /\ pc' = "loop_top"
              /\ UNCHANGED control_thread_running
         ELSE /\ app_status' =
                   [app_status EXCEPT
                      !.optimal_pump_speed_found = current_settings.MIN_PUMP_SPEED,
                      !.control_mode = current_settings.CONTROL_MODE,
                      !.target_pump_speed =
                          IF current_settings.CONTROL_MODE = "manual"
                          THEN current_settings.MANUAL_PUMP_SPEED_SETTING ELSE 0,
                      !.system_message = "sensor_discovery_error"]
              /\ control_thread_running' = FALSE
              /\ pc' = "exited"
              /\ UNCHANGED << pwm_pump, pwm_duty, elapsed >>
    /\ UNCHANGED << current_settings, control_mode, due, since_top, opt,
                    history_vars, http, http_count, fx >>
    /\ UNCHANGED << log_pending, manual_ticked, stop_pc >>
    /\ UNCHANGED store_vars

\* Lines 399-414: the while test, the clock and interval reads, the mode read
LoopTop ==
    /\ pc = "loop_top"
    /\ IF control_thread_running
       THEN /\ control_mode' = current_settings.CONTROL_MODE
            /\ due' = (elapsed >= current_settings.LOOP_INTERVAL_S)
            /\ since_top' = 0
            /\ pc' = current_settings.CONTROL_MODE
       ELSE /\ pc' = "shutdown"
            /\ UNCHANGED << control_mode, due, since_top >>
    /\ UNCHANGED << current_settings, app_status, pwm_pump, pwm_duty,
                    control_thread_running, elapsed, opt, history_vars, http, http_count, fx >>
    /\ UNCHANGED << log_pending, manual_ticked, stop_pc >>
    /\ UNCHANGED store_vars

\* Mutant: the manual target is commanded only when the loop interval has elapsed
ManualHoldWithoutCommand ==
    /\ pc = "manual" /\ ~due
    /\ cyc' = [NoCyc EXCEPT !.mode = "manual", !.cfg = current_settings]
    /\ pc' = "housekeeping"
    /\ UNCHANGED << current_settings, app_status, pwm_pump, pwm_duty,
                    control_thread_running, control_mode, due, elapsed, since_top,
                    opt, eng, http, http_count, fx >>
    /\ UNCHANGED << log_pending, manual_ticked, stop_pc >>
    /\ UNCHANGED store_vars

\* Lines 416-418 when the loop interval has not elapsed
ManualHold ==
    /\ pc = "manual" /\ ~due
    /\ LET cfg == current_settings
           x == cfg.MANUAL_PUMP_SPEED_SETTING
       IN  /\ app_status' = set_pump_speed_status(app_status, cfg, pwm_pump, x)
           /\ pwm_duty' = set_pump_speed_duty(pwm_duty, cfg, pwm_pump, x)
           /\ cyc' = [NoCyc EXCEPT !.mode = "manual", !.cfg = cfg]
    /\ pc' = "housekeeping"
    /\ UNCHANGED << current_settings, pwm_pump, control_thread_running, control_mode,
                    due, elapsed, since_top, opt, eng, http, http_count, fx >>
    /\ UNCHANGED << log_pending, manual_ticked, stop_pc >>
    /\ UNCHANGED store_vars

\* Lines 416-424 when the loop interval has elapsed: command, then observe
ManualObserve ==
    /\ pc = "manual" /\ due
    /\ \E inlet \in InletReadings, outlet \in OutletReadings :
         LET cfg == current_settings
             x == cfg.MANUAL_PUMP_SPEED_SETTING
             over == OverAfter(FALSE, cfg, outlet)
         IN  /\ log_pending' = (log_pending \/ BothFloat(inlet, outlet))
             /\ app_status' = WithMessage(
                    set_pump_speed_status(app_status, cfg, pwm_pump, x), "manual_target")
             /\ pwm_duty' = set_pump_speed_duty(pwm_duty, cfg, pwm_pump, x)
             /\ cyc' = [NoCyc EXCEPT !.mode = "manual", !.cfg = cfg, !.read = TRUE,
                          !.inlet = inlet, !.outlet = outlet, !.over = over]
    /\ elapsed' = 0
    /\ pc' = "housekeeping"
    /\ UNCHANGED << current_settings, pwm_pump, control_thread_running, control_mode,
                    due, since_top, opt, eng, http, http_count, fx >>
    /\ UNCHANGED << manual_ticked, stop_pc >>
    /\ UNCHANGED store_vars

\* Line 426 false: nothing to do in this iteration
AutoIdle ==
    /\ pc = "auto" /\ ~due
    /\ cyc' = [NoCyc EXCEPT !.mode = "auto", !.cfg = current_settings]
    /\ pc' = "housekeeping"
    /\ UNCHANGED << current_settings, app_status, pwm_pump, pwm_duty,
                    control_thread_running, control_mode, due, elapsed, since_top,
                    opt, eng, http, http_count, fx >>
    /\ UNCHANGED << log_pending, manual_ticked, stop_pc >>
    /\ UNCHANGED store_vars

\* Lines 426-458 for the reading pair that line 428 obtains: record it, decide,
\* stop or enter the engine
AutoEvaluateWith(inlet, outlet) ==
    /\ pc = "auto" /\ due
    /\   LET cfg == current_settings
             pump_on == app_status.pump_speed > 0
             d == AutoDecision(cfg, inlet, outlet, pump_on)
             over == OverAfter(FALSE, cfg, outlet)
             stopped == IF AutoStops(d, pump_on)
                        THEN stop_pump_status(app_status, cfg, pwm_pump)
                        ELSE app_status
         IN  /\ log_pending' = (log_pending \/ BothFloat(inlet, outlet))
             /\ app_status' = WithMessage(stopped, AutoMessage(d))
             /\ pwm_duty' = IF AutoStops(d, pump_on)
                            THEN set_pump_speed_duty(pwm_duty, cfg, pwm_pump, 0)
                            ELSE pwm_duty
             /\ cyc' = [NoCyc EXCEPT !.mode = "auto", !.cfg = cfg, !.read = TRUE,
                          !.inlet = inlet, !.outlet = outlet, !.pump_on = pump_on,
                          !.engine = AutoOptimizes(d), !.over = over]
             /\ IF AutoOptimizes(d)
                THEN /\ pc' = "opt_entry"
                     /\ UNCHANGED elapsed
                ELSE /\ pc' = "housekeeping"
                     /\ elapsed' = 0
    /\ UNCHANGED << current_settings, pwm_pump, control_thread_running, control_mode,
                    due, since_top, opt, eng, http, http_count, fx >>
    /\ UNCHANGED << manual_ticked, stop_pc >>
    /\ UNCHANGED store_vars

\* Lines 426-458: read the pair, decide, stop or enter the engine
AutoEvaluate ==
    \E inlet \in InletReadings, outlet \in OutletReadings :
        AutoEvaluateWith(inlet, outlet)

\* Lines 459-463: log flush, watchdog kick, time.sleep(1)
Housekeeping ==
    /\ pc = "housekeeping"
    /\ elapsed' = Tick(elapsed)
    /\ cyc' = NoCyc
    /\ eng' = NoEng
    /\ pc' = "loop_top"
    /\ UNCHANGED << current_settings, app_status, pwm_pump, pwm_duty,
                    control_thread_running, control_mode, due, since_top, opt, http, http_count, fx >>
    /\ \E flush_due \in BOOLEAN :
         log_pending' = IF flush_due THEN FALSE ELSE log_pending
    /\ manual_ticked' = (current_settings.CONTROL_MODE = "manual")
    /\ UNCHANGED stop_pc
    /\ UNCHANGED store_vars

\* Mutant: the loop is left without the final write_log_buffer_to_csv()
ThreadShutdownWithoutFlush ==
    /\ pc = "shutdown"
    /\ app_status' = WithMessage(stop_pump_status(app_status, current_settings, pwm_pump),
                                 "control_thread_stopped")
    /\ pwm_duty' = set_pump_speed_duty(pwm_duty, current_settings, pwm_pump, 0)
    /\ pc' = "exited"
    /\ UNCHANGED << current_settings, pwm_pump, control_thread_running, control_mode,
                    due, elapsed, since_top, opt, history_vars, http, http_count, fx,
                    log_pending, manual_ticked, stop_pc >>
    /\ UNCHANGED store_vars

\* Lines 464-465: leaving the loop
ThreadShutdown ==
    /\ pc = "shutdown"
    /\ app_status' = WithMessage(stop_pump_status(app_status, current_settings, pwm_pump),
                                 "control_thread_stopped")
    /\ pwm_duty' = set_pump_speed_duty(pwm_duty, current_settings, pwm_pump, 0)
    /\ pc' = "exited"
    /\ UNCHANGED << current_settings, pwm_pump, control_thread_running, control_mode,
                    due, elapsed, since_top, opt, history_vars, http, http_count, fx >>
    /\ log_pending' = FALSE
    /\ UNCHANGED << manual_ticked, stop_pc >>
    /\ UNCHANGED store_vars

----------------------------------------------------------------------------
(* OptimizationEngine: optimize_pump_speed *)

\* The engine returns to line 458: last_control_cycle_time = current_time
EngineReturns(outcome) ==
    /\ eng' = [eng EXCEPT !.outcome = outcome]
    /\ opt' = NoOpt
    /\ elapsed' = since_top
    /\ pc' = "housekeeping"

\* Lines 339-355 for the inlet reading that line 348 obtains; the range() of
\* line 354 raises for a step of 0 and the thread ends with the exception
OptEntryWith(initial_inlet) ==
    /\ pc = "opt_entry"
    /\   LET cfg == current_settings
             start_speed == StartSpeed(cfg, app_status.optimal_pump_speed_found)
             entered == [NoEng EXCEPT !.entered = TRUE,
                           !.entry_bad = (initial_inlet = None
                                          \/ initial_inlet < cfg.MIN_INLET_TEMP_TO_RUN),
                           !.entry_opt = app_status.optimal_pump_speed_found,
                           !.entry_max = app_status.max_delta_t_found_display]
         IN  IF OptAborts(cfg, initial_inlet)
             THEN /\ app_status' = WithMessage(
                         stop_pump_status(app_status, cfg, pwm_pump), "opt_aborted")
                  /\ pwm_duty' = set_pump_speed_duty(pwm_duty, cfg, pwm_pump, 0)
                  /\ eng' = [entered EXCEPT !.outcome = "aborted"]
                  /\ opt' = NoOpt
                  /\ elapsed' = since_top
                  /\ pc' = "housekeeping"
             ELSE IF RangeRaises(cfg)
             THEN /\ app_status' = WithMessage(app_status, "optimizing")
                  /\ eng' = [entered EXCEPT !.outcome = "raised"]
                  /\ opt' = NoOpt
                  /\ pc' = "crashed"
                  /\ UNCHANGED << pwm_duty, elapsed >>
             ELSE /\ app_status' = WithMessage(app_status, "optimizing")
                  /\ eng' = entered
                  /\ opt' = [NoOpt EXCEPT !.speeds = SpeedsToCheck(cfg, start_speed),
                               !.i = 1, !.opt_speed = start_speed]
                  /\ pc' = IF SpeedsToCheck(cfg, start_speed) = << >>
                           THEN "opt_conclude" ELSE "opt_iter"
                  /\ UNCHANGED << pwm_duty, elapsed >>
    /\ UNCHANGED << current_settings, pwm_pump, control_thread_running, control_mode,
                    due, since_top, cyc, http, http_count, fx >>
    /\ UNCHANGED << log_pending, manual_ticked, stop_pc >>
    /\ UNCHANGED store_vars

\* Lines 339-355: start speed, initial inlet read, abort or build the sweep
OptEntry ==
    \E initial_inlet \in InletReadings : OptEntryWith(initial_inlet)

\* Lines 356-360: next candidate: poll the flag, command the speed
OptIter ==
    /\ pc = "opt_iter"
    /\ IF ~control_thread_running
       THEN /\ EngineReturns("interrupted")
            /\ UNCHANGED << app_status, pwm_duty >>
       ELSE LET cfg == current_settings
                speed_to_test == opt.speeds[opt.i]
            IN  /\ app_status' = WithMessage(
                       set_pump_speed_status(app_status, cfg, pwm_pump, speed_to_test),
                       "opt_stabilizing")
                /\ pwm_duty' = set_pump_speed_duty(pwm_duty, cfg, pwm_pump, speed_to_test)
                /\ opt' = [opt EXCEPT !.stab_left = Max(0, cfg.STABILIZATION_TIME_S)]
                /\ eng' = [eng EXCEPT !.cmds = @ + 1]
                /\ pc' = "opt_stab"
                /\ UNCHANGED elapsed
    /\ UNCHANGED << current_settings, pwm_pump, control_thread_running, control_mode,
                    due, since_top, cyc, http, http_count, fx >>
    /\ UNCHANGED << log_pending, manual_ticked, stop_pc >>
    /\ UNCHANGED store_vars

\* Mutant: the stabilization wait sleeps its slices without polling the flag
OptStabilizeWithoutPoll ==
    /\ pc = "opt_stab" /\ opt.stab_left > 0
    /\ opt' = [opt EXCEPT !.stab_left = @ - 1]
    /\ elapsed' = Tick(elapsed)
    /\ since_top' = Tick(since_top)
    /\ UNCHANGED << pc, eng >>
    /\ UNCHANGED << current_settings, app_status, pwm_pump, pwm_duty,
                    control_thread_running, control_mode, due, cyc, http, http_count, fx >>
    /\ manual_ticked' = (current_settings.CONTROL_MODE = "manual")
    /\ UNCHANGED << log_pending, stop_pc >>
    /\ UNCHANGED store_vars

\* Lines 361-363: one 1-second slice of the stabilization wait
OptStabilize ==
    /\ pc = "opt_stab" /\ opt.stab_left > 0
    /\ IF ~control_thread_running
       THEN /\ EngineReturns("interrupted")
            /\ UNCHANGED since_top
       ELSE /\ opt' = [opt EXCEPT !.stab_left = @ - 1]
            /\ elapsed' = Tick(elapsed)
            /\ since_top' = Tick(since_top)
            /\ UNCHANGED << pc, eng >>
    /\ UNCHANGED << current_settings, app_status, pwm_pump, pwm_duty,
                    control_thread_running, control_mode, due, cyc, http, http_count, fx >>
    /\ manual_ticked' = IF control_thread_running
                        THEN current_settings.CONTROL_MODE = "manual"
                        ELSE manual_ticked
    /\ UNCHANGED << log_pending, stop_pc >>
    /\ UNCHANGED store_vars

\* Lines 364-372 for the reading pair that line 364 obtains
OptSampleWith(in_temp, out_temp) ==
    /\ pc = "opt_stab" /\ opt.stab_left = 0
    /\   LET cfg == current_settings
             speed_to_test == opt.speeds[opt.i]
             valid == SampleValid(in_temp, out_temp)
             better == valid /\ out_temp - in_temp > opt.max_dt
             over == out_temp # None /\ out_temp > cfg.MAX_OUTLET_TEMP_CUTOFF
             sampled == [eng EXCEPT !.samples = @ + 1,
                           !.over_seen = @ \/ over,
                           !.fault_seen = @ \/ in_temp = None \/ out_temp = None]
         IN  /\ log_pending' = (log_pending \/ BothFloat(in_temp, out_temp))
             /\ cyc' = [cyc EXCEPT !.over = OverAfter(@, cfg, out_temp)]
             /\ IF SweepSafetyStop(cfg, in_temp, out_temp)
                THEN /\ app_status' = WithMessage(
                            stop_pump_status(app_status, cfg, pwm_pump), "opt_safety")
                     /\ pwm_duty' = set_pump_speed_duty(pwm_duty, cfg, pwm_pump, 0)
                     /\ eng' = [sampled EXCEPT !.outcome = "safety"]
                     /\ opt' = NoOpt
                     /\ elapsed' = since_top
                     /\ pc' = "housekeeping"
                ELSE /\ app_status' = WithMessage(app_status, "opt_tested")
                     /\ eng' = sampled
                     /\ opt' = [opt EXCEPT !.i = @ + 1,
                                  !.max_dt = IF better THEN out_temp - in_temp ELSE @,
                                  !.opt_speed = IF better THEN speed_to_test ELSE @]
                     /\ pc' = IF opt.i = Len(opt.speeds) THEN "opt_conclude" ELSE "opt_iter"
                     /\ UNCHANGED << pwm_duty, elapsed >>
    /\ UNCHANGED << current_settings, pwm_pump, control_thread_running, control_mode,
                    due, since_top, http, http_count, fx >>
    /\ UNCHANGED << manual_ticked, stop_pc >>
    /\ UNCHANGED store_vars

\* Lines 364-372: sample the pair at this speed, track the best, safety stop
OptSample ==
    \E in_temp \in InletReadings, out_temp \in OutletReadings :
        OptSampleWith(in_temp, out_temp)

\* Lines 374-382 for the reading pair that line 380 obtains
OptConcludeFoundWith(final_in, final_out) ==
    /\ pc = "opt_conclude"
    /\ opt.max_dt >= current_settings.DELTA_T_OFF
    /\   LET cfg == current_settings
             stored == [app_status EXCEPT
                          !.max_delta_t_found_display = convert_temp_for_display(opt.max_dt, cfg.DISPLAY_TEMP_UNIT),
                          !.optimal_pump_speed_found = opt.opt_speed]
         IN  /\ log_pending' = (log_pending \/ BothFloat(final_in, final_out))
             /\ app_status' = WithMessage(
                    set_pump_speed_status(stored, cfg, pwm_pump, opt.opt_speed),
                    "opt_complete")
             /\ pwm_duty' = set_pump_speed_duty(pwm_duty, cfg, pwm_pump, opt.opt_speed)
             /\ cyc' = [cyc EXCEPT !.over = OverAfter(@, cfg, final_out)]
    /\ EngineReturns("concluded")
    /\ UNCHANGED << current_settings, pwm_pump, control_thread_running, control_mode,
                    due, since_top, http, http_count, fx >>
    /\ UNCHANGED << manual_ticked, stop_pc >>
    /\ UNCHANGED store_vars

\* Lines 374-382: a viable speed was found: store it, command it, read once more
OptConcludeFound ==
    \E final_in \in InletReadings, final_out \in OutletReadings :
        OptConcludeFoundWith(final_in, final_out)

\* Lines 383-386: no speed reached DELTA_T_OFF: stop
OptConcludeNone ==
    /\ pc = "opt_conclude"
    /\ opt.max_dt < current_settings.DELTA_T_OFF
    /\ LET cfg == current_settings
           shown == IF opt.max_dt > INITIAL_MAX_DELTA_T THEN opt.max_dt ELSE None
           stored == [app_status EXCEPT
                        !.max_delta_t_found_display = convert_temp_for_display(shown, cfg.DISPLAY_TEMP_UNIT)]
       IN  /\ app_status' = WithMessage(stop_pump_status(stored, cfg, pwm_pump),
                                        "opt_no_speed")
           /\ pwm_duty' = set_pump_speed_duty(pwm_duty, cfg, pwm_pump, 0)
    /\ EngineReturns("no_viable_speed")
    /\ UNCHANGED << current_settings, pwm_pump, control_thread_running, control_mode,
                    due, since_top, cyc, http, http_count, fx >>
    /\ UNCHANGED << log_pending, manual_ticked, stop_pc >>
    /\ UNCHANGED store_vars

----------------------------------------------------------------------------
(* HTTP handlers and the main thread *)

\* set_control_mode, lines 817-838, when the mode changes
SetControlMode ==
    /\ pc # "start"
    /\ http_count < MaxHttpRequests
    /\ http_count' = http_count + 1
    /\ \E new_mode \in {"auto", "manual"} :
         /\ current_settings.CONTROL_MODE # new_mode
         /\ current_settings' = [current_settings EXCEPT !.CONTROL_MODE = new_mode]
         /\ app_status' = [app_status EXCEPT
                             !.control_mode = new_mode,
                             !.target_pump_speed =
                                 IF new_mode = "manual"
                                 THEN current_settings.MANUAL_PUMP_SPEED_SETTING ELSE 0]
    /\ UNCHANGED << thread_vars, control_thread_running, history_vars, http, fx >>
    /\ manual_ticked' = FALSE
    /\ UNCHANGED << log_pending, stop_pc >>
    /\ UNCHANGED store_vars

\* set_manual_pump_speed_route, lines 840-866, accepted in manual mode
SetManualPumpSpeed ==
    /\ pc # "start"
    /\ http_count < MaxHttpRequests
    /\ http_count' = http_count + 1
    /\ current_settings.CONTROL_MODE = "manual"
    /\ \E speed \in ManualSpeedChoices :
         /\ 0 <= speed /\ speed <= 100
         /\ current_settings.MANUAL_PUMP_SPEED_SETTING # speed
         /\ current_settings' = [current_settings EXCEPT
                                   !.MANUAL_PUMP_SPEED_SETTING = speed]
         /\ app_status' = [app_status EXCEPT !.target_pump_speed = speed]
    /\ UNCHANGED << thread_vars, control_thread_running, history_vars, http, fx >>
    /\ UNCHANGED << log_pending, manual_ticked, stop_pc >>
    /\ UNCHANGED store_vars

\* settings_page POST, lines 564-601: build the candidate and replace the settings
SettingsApply ==
    /\ pc # "start"
    /\ http = "idle"
    /\ http_count < MaxHttpRequests
    /\ http_count' = http_count + 1
    /\ \E form \in SettingsForms :
         LET new_settings_candidate ==
                 [current_settings EXCEPT !.MIN_PUMP_SPEED = form[1],
                                          !.MIN_INLET_TEMP_TO_RUN = form[2]]
         IN  /\ new_settings_candidate # current_settings
             /\ current_settings' = new_settings_candidate
    /\ http' = "saving"
    /\ UNCHANGED << app_status, thread_vars, control_thread_running, history_vars, fx >>
    /\ UNCHANGED << log_pending, manual_ticked, stop_pc >>
    /\ UNCHANGED store_vars

\* settings_page POST, lines 603-619: save_settings(), then publish the mode
SettingsSave ==
    /\ http = "saving"
    /\ \E saved \in BOOLEAN :
         /\ app_status' =
                IF saved
                THEN [app_status EXCEPT
                        !.control_mode = current_settings.CONTROL_MODE,
                        !.target_pump_speed =
                            IF current_settings.CONTROL_MODE = "manual"
                            THEN current_settings.MANUAL_PUMP_SPEED_SETTING ELSE 0]
                ELSE app_status
         /\ temperature_history' =
                IF saved /\ temperature_history.maxlen # current_settings.MAX_HISTORY_POINTS
                THEN EmptyDeque(current_settings.MAX_HISTORY_POINTS)
                ELSE temperature_history
    /\ UNCHANGED log_buffer
    /\ http' = "idle"
    /\ UNCHANGED << current_settings, thread_vars, control_thread_running,
                    history_vars, http_count, fx >>
    /\ UNCHANGED << log_pending, manual_ticked, stop_pc >>

\* __main__, line 884: the shutdown request
RequestShutdown ==
    /\ pc # "start"
    /\ control_thread_running
    /\ control_thread_running' = FALSE
    /\ UNCHANGED << current_settings, app_status, thread_vars, history_vars, http, http_count, fx >>
    /\ stop_pc' = pc
    /\ UNCHANGED << log_pending, manual_ticked >>
    /\ UNCHANGED store_vars

----------------------------------------------------------------------------
Next ==
    \/ Startup
    \/ LoopTop
    \/ ManualHold
    \/ ManualObserve
    \/ AutoIdle
    \/ AutoEvaluate
    \/ Housekeeping
    \/ ThreadShutdown
    \/ OptEntry
    \/ OptIter
    \/ OptStabilize
    \/ OptSample
    \/ OptConcludeFound
    \/ OptConcludeNone
    \/ SetControlMode
    \/ SetManualPumpSpeed
    \/ SettingsApply
    \/ SettingsSave
    \/ RequestShutdown

Spec == Init /\ [][Next]_vars

----------------------------------------------------------------------------
(* set_pump_speed applied directly to every input of a bounded grid *)

SetSpeedMinChoices == {0, 20, 50}
SetSpeedMaxChoices == {30, 100}
SetSpeedInputs == {-5, 0, 1, 10, 25, 30, 60, 100, 101, 150}

InitSetSpeed ==
    /\ \E lo \in SetSpeedMinChoices, hi \in SetSpeedMaxChoices :
         current_settings = [InitialSettings EXCEPT !.MIN_PUMP_SPEED = lo,
                                                    !.MAX_PUMP_SPEED = hi]
    /\ app_status = [ pump_speed |-> 0, target_pump_speed |-> 0,
                      system_message |-> "pwm_initialized",
                      optimal_pump_speed_found |-> current_settings.MIN_PUMP_SPEED,
                      max_delta_t_found_display |-> NA,
                      control_mode |-> InitialSettings.CONTROL_MODE ]
    /\ pwm_pump = "PWM"
    /\ pwm_duty = 0
    /\ control_thread_running = TRUE
    /\ pc = "call"
    /\ control_mode = "auto"
    /\ due = FALSE
    /\ elapsed = 0
    /\ since_top = 0
    /\ opt = NoOpt
    /\ cyc = NoCyc
    /\ eng = NoEng
    /\ http = "idle"
    /\ http_count = 0
    /\ \E x \in SetSpeedInputs : fx = [x |-> x, called |-> FALSE]
    /\ log_pending = FALSE
    /\ log_buffer = << >>
    /\ temperature_history = EmptyDeque(InitialSettings.MAX_HISTORY_POINTS)
    /\ manual_ticked = FALSE
    /\ stop_pc = "none"

\* set_pump_speed(fx.x), lines 236-246
CallSetPumpSpeed ==
    /\ pc = "call"
    /\ ~fx.called
    /\ app_status' = set_pump_speed_status(app_status, current_settings, pwm_pump, fx.x)
    /\ pwm_duty' = set_pump_speed_duty(pwm_duty, current_settings, pwm_pump, fx.x)
    /\ fx' = [fx EXCEPT !.called = TRUE]
    /\ UNCHANGED << current_settings, pwm_pump, control_thread_running, pc, control_mode,
                    due, elapsed, since_top, opt, cyc, eng, http, http_count >>
    /\ UNCHANGED << log_pending, manual_ticked, stop_pc >>
    /\ UNCHANGED store_vars

NextSetSpeed == CallSetPumpSpeed

SpecSetSpeed == InitSetSpeed /\ [][NextSetSpeed]_vars

----------------------------------------------------------------------------
(* Properties *)

CycleOutletOverCutoff ==
    cyc.read /\ cyc.outlet # None /\ cyc.outlet > cyc.cfg.MAX_OUTLET_TEMP_CUTOFF

\* C1: once a sweep sample has outlet > MAX_OUTLET_TEMP_CUTOFF, whatever its inlet
\* reading, the engine has stopped the pump (duty 0) and returned: it is at no
\* later point of the sweep (no further candidate, no conclusion).
C1_SafetyStopPreemptsSweep ==
    eng.over_seen => /\ pc \notin {"opt_iter", "opt_stab", "opt_conclude"}
                     /\ pwm_duty = 0

\* C2: an Auto cycle whose reading pair has outlet > MAX_OUTLET_TEMP_CUTOFF ends
\* with pump duty 0 and without invoking the optimization engine, whatever the
\* inlet, the delta-T and the previous pump state are.
C2_AutoCutoffStops ==
    (cyc.mode = "auto" /\ CycleOutletOverCutoff)
        => /\ pc = "housekeeping"
           /\ pwm_duty = 0
           /\ ~cyc.engine
           /\ ~eng.entered

\* C2 witness: the pump was running, the inlet is valid and below the minimum,
\* the outlet is above the cutoff, and the cycle has ended with the pump off.
C2_Witness ==
    /\ pc = "housekeeping" /\ cyc.mode = "auto" /\ CycleOutletOverCutoff
    /\ cyc.pump_on
    /\ Truthy(cyc.inlet) /\ cyc.inlet < cyc.cfg.MIN_INLET_TEMP_TO_RUN
    /\ pwm_duty = 0

\* C3: after any control-loop iteration (Auto or Manual) in which a reading pair
\* with outlet > MAX_OUTLET_TEMP_CUTOFF was taken, the pump duty is 0.
C3_CutoffRespectedInEveryMode ==
    (pc = "housekeeping" /\ cyc.over) => pwm_duty = 0

\* C4: for every MIN_PUMP_SPEED and MAX_PUMP_SPEED, set_pump_speed(x) on an
\* initialized actuator gives duty 0 for x <= 0, MIN_PUMP_SPEED for
\* 0 < x < MIN_PUMP_SPEED, MAX_PUMP_SPEED for x > MAX_PUMP_SPEED, and reports the
\* target x clamped to [0,100].
C4_SetPumpSpeedBand ==
    fx.called =>
        /\ (fx.x <= 0 => pwm_duty = 0)
        /\ (0 < fx.x /\ fx.x < current_settings.MIN_PUMP_SPEED
                => pwm_duty = current_settings.MIN_PUMP_SPEED)
        /\ (fx.x > current_settings.MAX_PUMP_SPEED
                => pwm_duty = current_settings.MAX_PUMP_SPEED)
        /\ app_status.target_pump_speed =
               (IF fx.x < 0 THEN 0 ELSE IF fx.x > 100 THEN 100 ELSE fx.x)
        /\ app_status.pump_speed = pwm_duty

\* C5 as claimed: in every reachable state the duty last commanded to the
\* hardware is 0 or lies in [MIN_PUMP_SPEED, MAX_PUMP_SPEED] of the current
\* configuration.
C5_DutyInCurrentBand ==
    \/ pwm_duty = 0
    \/ /\ current_settings.MIN_PUMP_SPEED <= pwm_duty
       /\ pwm_duty <= current_settings.MAX_PUMP_SPEED

\* C5 as amended: every step that gives the hardware a new duty gives it 0 or a
\* duty of at least the MIN_PUMP_SPEED of the configuration that step read, and
\* of at most its MAX_PUMP_SPEED when that configuration has MIN <= MAX.
C5_CommandedDutyInBand ==
    [][ pwm_duty' # pwm_duty =>
          \/ pwm_duty' = 0
          \/ /\ current_settings.MIN_PUMP_SPEED <= pwm_duty'
             /\ (current_settings.MIN_PUMP_SPEED <= current_settings.MAX_PUMP_SPEED
                    => pwm_duty' <= current_settings.MAX_PUMP_SPEED) ]_vars

\* C5 witness: after MIN_PUMP_SPEED was raised above the manual target, a Manual
\* iteration between two observations has commanded the raised minimum.
C5_Witness ==
    /\ pc = "housekeeping" /\ cyc.mode = "manual" /\ ~cyc.read
    /\ current_settings.MIN_PUMP_SPEED = 30
    /\ current_settings.MANUAL_PUMP_SPEED_SETTING = 25
    /\ pwm_duty = 30

\* C6: when the engine's initial inlet reading is unavailable or below
\* MIN_INLET_TEMP_TO_RUN, the engine has returned as aborted with the pump at
\* duty 0, has commanded no candidate speed, has taken no sweep measurement and
\* has left the stored best speed and best delta-T as they were on entry.
C6_AbortOnlyStops ==
    eng.entry_bad =>
        /\ pc = "housekeeping"
        /\ eng.outcome = "aborted"
        /\ eng.cmds = 0
        /\ eng.samples = 0
        /\ pwm_duty = 0
        /\ app_status.optimal_pump_speed_found = eng.entry_opt
        /\ app_status.max_delta_t_found_display = eng.entry_max

\* C6 witness: a re-optimization of a running pump aborted on a valid inlet
\* reading below the minimum, after an earlier sweep had stored a best delta-T.
C6_Witness ==
    /\ eng.entry_bad /\ eng.outcome = "aborted"
    /\ cyc.pump_on
    /\ pwm_duty = 0
    /\ ~eng.entry_max.na

C8_SweepFaultForcesPumpOff ==
    eng.fault_seen => /\ pc # "opt_stab"
                      /\ (pc = "housekeeping" => pwm_duty = 0)

\* C9: in an Auto cycle with both readings valid, outlet <= cutoff and
\* inlet >= MIN_INLET_TEMP_TO_RUN: pump on and delta-T < DELTA_T_OFF -> stopped;
\* pump off and delta-T >= DELTA_T_ON -> engine invoked; pump on and
\* delta-T >= DELTA_T_OFF -> engine re-invoked; pump off and delta-T < DELTA_T_ON
\* -> pump left off, engine not invoked.
C9_AutoHysteresisDecision ==
    (/\ cyc.mode = "auto" /\ cyc.read
     /\ cyc.inlet # None /\ cyc.outlet # None
     /\ cyc.outlet <= cyc.cfg.MAX_OUTLET_TEMP_CUTOFF
     /\ cyc.inlet >= cyc.cfg.MIN_INLET_TEMP_TO_RUN)
        => LET dt == cyc.outlet - cyc.inlet
               stopped == pc = "housekeeping" /\ ~cyc.engine /\ pwm_duty = 0
           IN  /\ (cyc.pump_on /\ dt < cyc.cfg.DELTA_T_OFF => stopped)
               /\ (~cyc.pump_on /\ dt >= cyc.cfg.DELTA_T_ON => cyc.engine)
               /\ (cyc.pump_on /\ dt >= cyc.cfg.DELTA_T_OFF => cyc.engine)
               /\ (~cyc.pump_on /\ dt < cyc.cfg.DELTA_T_ON => stopped)

\* C10: a Manual iteration has commanded the pump to MANUAL_PUMP_SPEED_SETTING
\* (duty 0 for target 0, else the target clamped into
\* [MIN_PUMP_SPEED, MAX_PUMP_SPEED]) and has not invoked the engine, whatever
\* the readings are.
C10_ManualCommandsTarget ==
    cyc.mode = "manual" =>
        LET m == cyc.cfg.MANUAL_PUMP_SPEED_SETTING
            lo == cyc.cfg.MIN_PUMP_SPEED
            hi == cyc.cfg.MAX_PUMP_SPEED
        IN  /\ pc = "housekeeping"
            /\ ~cyc.engine /\ ~eng.entered
            /\ (m = 0 => pwm_duty = 0)
            /\ (m # 0 /\ m < lo => pwm_duty = lo)
            /\ (m # 0 /\ m > hi => pwm_duty = hi)
            /\ (m # 0 /\ lo <= m /\ m <= hi => pwm_duty = m)
            /\ app_status.pump_speed = pwm_duty

\* C10 witness: a Manual iteration that read an outlet above the cutoff and an
\* unavailable inlet, with a target below MIN_PUMP_SPEED clamped up to it.
C10_Witness ==
    /\ pc = "housekeeping" /\ cyc.mode = "manual" /\ cyc.read
    /\ cyc.inlet = None /\ CycleOutletOverCutoff
    /\ cyc.cfg.MANUAL_PUMP_SPEED_SETTING = 25
    /\ cyc.cfg.MIN_PUMP_SPEED = 30
    /\ pwm_duty = 30

\* The control thread has just commanded a sweep candidate: it is at the
\* stabilization wait of line 361 and no 1-second slice of it has passed yet.
SweepCandidateJustCommanded ==
    /\ pc = "opt_stab"
    /\ opt.stab_left = current_settings.STABILIZATION_TIME_S
    /\ opt.stab_left > 0

\* C11: once set_control_mode has switched CONTROL_MODE to manual and the control
\* thread has ended a 1-second sleep after that, the control thread commands no
\* further sweep candidate speed, also when the switch arrived during a sweep.
C11_ManualTakesEffectNextTick ==
    ~(manual_ticked /\ SweepCandidateJustCommanded)

\* C12: within one control cycle every configuration value the control thread
\* reads comes from one configuration version: the duty of a sweep candidate is
\* the one the configuration read at the start of the cycle gives.
C12_OneConfigurationPerCycle ==
    SweepCandidateJustCommanded
        => pwm_duty = ActualDutyCycle(cyc.cfg, opt.speeds[opt.i])

\* C14: when control_thread_running became false while optimize_pump_speed was
\* in its sweep (at an iteration boundary or at the stabilization wait), the
\* engine returns without its conclusion logic and the stored best speed and
\* best delta-T keep the values they had when the engine was entered.
C14_InterruptedSweepKeepsBest ==
    (stop_pc \in {"opt_iter", "opt_stab"} /\ eng.entered)
        => /\ eng.outcome \notin {"concluded", "no_viable_speed"}
           /\ app_status.optimal_pump_speed_found = eng.entry_opt
           /\ app_status.max_delta_t_found_display = eng.entry_max

----------------------------------------------------------------------------
(* Scheduling: the control thread is a running OS thread, so a step of it   *)
(* that stays possible is eventually taken.  The HTTP handlers and the      *)
(* shutdown request depend on the outside world and carry no fairness.      *)

ControlThread ==
    \/ Startup
    \/ LoopTop
    \/ ManualHold
    \/ ManualObserve
    \/ AutoIdle
    \/ AutoEvaluate
    \/ Housekeeping
    \/ ThreadShutdown
    \/ OptEntry
    \/ OptIter
    \/ OptStabilize
    \/ OptSample
    \/ OptConcludeFound
    \/ OptConcludeNone

\* The run up to and through shutdown: the control thread, the mode and manual
\* speed commands that steer it, and the shutdown request of __main__
NextShutdown ==
    \/ ControlThread
    \/ SetControlMode
    \/ SetManualPumpSpeed
    \/ RequestShutdown

SpecShutdown == Init /\ [][NextShutdown]_vars /\ WF_vars(ControlThread)

\* The control thread has passed setup_pwm(): it is in its loop or has left it
LoopWasEntered == pwm_pump = "PWM"

----------------------------------------------------------------------------
(* Thermal power: calculate_estimated_thermal_power *)

SPECIFIC_HEAT_CAPACITY_WATER == 4186
WATER_DENSITY_KG_L == 1

\* A power that is None; a known power is the exact fraction num / den watts
NoPower == [known |-> FALSE, num |-> 0, den |-> 1]

Abs(n) == IF n < 0 THEN -n ELSE n

RECURSIVE GCD(_, _)
GCD(a, b) == IF b = 0 THEN a ELSE GCD(b, a % b)

\* The fraction q multiplied by the integer k, in lowest terms
Times(q, k) ==
    LET g == GCD(Abs(k), q.den)
    IN  [num |-> q.num * (k \div g), den |-> q.den \div g]

\* Mutant: the duty is not tested for 0
PowerIsNoneWithoutDutyTest(delta_t_celsius, duty) ==
    delta_t_celsius = None \/ duty = None

\* The arguments for which line 254 returns None; duty is None or an actual duty
PowerIsNone(delta_t_celsius, duty) ==
    delta_t_celsius = None \/ duty = None \/ duty = 0

\* Lines 255-256: with delta-T in milli-degrees,
\* (duty/100 * flow/60) * density * heat * (delta/1000) is the fraction
\* duty * flow * density * heat * delta / 6000000
calculate_estimated_thermal_power(cfg, delta_t_celsius, duty) ==
    IF PowerIsNone(delta_t_celsius, duty) THEN NoPower
    ELSE LET estimated_flow == Times([num |-> 1, den |-> 6000000],
                                     duty * cfg.MAX_PUMP_FLOW_RATE_LPM)
             heat == Times(Times(estimated_flow, WATER_DENSITY_KG_L),
                           SPECIFIC_HEAT_CAPACITY_WATER)
             watts == Times(heat, delta_t_celsius)
         IN  [known |-> TRUE, num |-> watts.num, den |-> watts.den]

\* f"{power_w:.1f}" if power_w is not None else "N/A"
PowerDisplay(power_w) ==
    IF power_w.known
    THEN [na |-> FALSE, val |-> RoundDiv(power_w.num * 10, power_w.den), digits |-> 1]
    ELSE NA

----------------------------------------------------------------------------
(* StatusStore: update_status_and_history, write_log_buffer_to_csv *)

\* calculated_delta_t_c (lines 299-303)
CalculatedDeltaT(inlet_temp_c, outlet_temp_c, delta_t_c) ==
    IF BothFloat(inlet_temp_c, outlet_temp_c) THEN outlet_temp_c - inlet_temp_c
    ELSE delta_t_c

\* round(x, 2) of a Celsius value in milli-degrees: hundredths of a degree
Round2(temp_c) == RoundDiv(temp_c, 10)

\* graph_inlet / graph_outlet rounded (lines 316-322): hundredths of a degree
\* of the display unit
GraphValue(cfg, temp_c) ==
    IF cfg.DISPLAY_TEMP_UNIT = "F"
    THEN RoundDiv(celsius_to_fahrenheit(temp_c), 50)
    ELSE Round2(temp_c)

HistoryPoint(cfg, inlet_temp_c, outlet_temp_c) ==
    [inlet |-> GraphValue(cfg, inlet_temp_c), outlet |-> GraphValue(cfg, outlet_temp_c)]

NullPoint == [inlet |-> None, outlet |-> None]

LogRecord(inlet_temp_c, outlet_temp_c) ==
    [inlet_temp_c |-> Round2(inlet_temp_c), outlet_temp_c |-> Round2(outlet_temp_c)]

\* deque.append: a full deque drops its oldest item
DequeAppend(dq, point) ==
    IF dq.maxlen = 0 THEN dq
    ELSE IF Len(dq.items) >= dq.maxlen
         THEN [dq EXCEPT !.items = Tail(@) \o << point >>]
         ELSE [dq EXCEPT !.items = Append(@, point)]

\* any(k in kwargs for k in ["pump_speed", "system_message", "target_pump_speed"])
\* kwargs is "none" (no keyword) or "message" (system_message=...)
HasStatusKeyword(kwargs) == kwargs = "message"

\* Line 324: the call appends no null point
NullPointSkipped(kwargs) == HasStatusKeyword(kwargs)

\* app_status after update_status_and_history (lines 292-314)
record_status(S, cfg, inlet_temp_c, outlet_temp_c, delta_t_c, kwargs) ==
    LET unit == cfg.DISPLAY_TEMP_UNIT
        calculated == CalculatedDeltaT(inlet_temp_c, outlet_temp_c, delta_t_c)
        power_w == calculate_estimated_thermal_power(cfg, calculated, S.pump_speed)
    IN  [S EXCEPT
           !.inlet_temp_display = convert_temp_for_display(inlet_temp_c, unit),
           !.outlet_temp_display = convert_temp_for_display(outlet_temp_c, unit),
           !.delta_t_display = convert_temp_for_display(calculated, unit),
           !.thermal_power_watts = PowerDisplay(power_w),
           !.system_message = IF kwargs = "message" THEN "recorded" ELSE @]

\* temperature_history after update_status_and_history (lines 316-325)
record_history(dq, cfg, inlet_temp_c, outlet_temp_c, kwargs) ==
    IF BothFloat(inlet_temp_c, outlet_temp_c)
    THEN DequeAppend(dq, HistoryPoint(cfg, inlet_temp_c, outlet_temp_c))
    ELSE IF ~NullPointSkipped(kwargs) THEN DequeAppend(dq, NullPoint)
    ELSE dq

\* log_buffer after update_status_and_history (line 323)
record_log(buf, inlet_temp_c, outlet_temp_c) ==
    IF BothFloat(inlet_temp_c, outlet_temp_c)
    THEN Append(buf, LogRecord(inlet_temp_c, outlet_temp_c))
    ELSE buf

----------------------------------------------------------------------------
(* The status store driven directly: recordings, pump commands, log flushes *)
(* and settings updates that change MAX_HISTORY_POINTS or the display unit, *)
(* in every order.  fx holds the arguments and the pre-state of the call    *)
(* made last.                                                               *)

StoreInlets == {None, 20004}
StoreOutlets == {None, 25000}
StoreOverrides == {None, 7000}
StoreSpeeds == {0, 25}
\* Forms the settings page receives: << MAX_HISTORY_POINTS, DISPLAY_TEMP_UNIT >>
StoreForms == { << 1, "C" >>, << 2, "F" >> }
MaxLogBuffer == 2

NoCall == [op |-> "none", inlet |-> None, outlet |-> None, delta_t_c |-> None,
           kwargs |-> "none", reported |-> FALSE,
           history_before |-> EmptyDeque(0), log_before |-> << >>]

InitStore ==
    /\ current_settings = InitialSettings
    /\ app_status = [ inlet_temp_display |-> NA, outlet_temp_display |-> NA,
                      delta_t_display |-> NA, thermal_power_watts |-> NA,
                      pump_speed |-> 0, target_pump_speed |-> 0,
                      system_message |-> "pwm_initialized",
                      optimal_pump_speed_found |-> InitialSettings.MIN_PUMP_SPEED,
                      max_delta_t_found_display |-> NA,
                      control_mode |-> InitialSettings.CONTROL_MODE ]
    /\ pwm_pump = "PWM"
    /\ pwm_duty = 0
    /\ control_thread_running = TRUE
    /\ pc = "store"
    /\ control_mode = "auto"
    /\ due = FALSE
    /\ elapsed = 0
    /\ since_top = 0
    /\ opt = NoOpt
    /\ cyc = NoCyc
    /\ eng = NoEng
    /\ http = "idle"
    /\ http_count = 0
    /\ fx = NoCall
    /\ log_pending = FALSE
    /\ log_buffer = << >>
    /\ temperature_history = EmptyDeque(InitialSettings.MAX_HISTORY_POINTS)
    /\ manual_ticked = FALSE
    /\ stop_pc = "none"

store_frame == << control_thread_running, pwm_pump, control_mode, due, elapsed,
                 since_top, opt, cyc, eng, http_count, manual_ticked, stop_pc >>

\* update_status_and_history(...), lines 289-325.  reported: the caller passes
\* its reading pair as inlet_temp_c= / outlet_temp_c= (as lines 366, 422, 430 do);
\* the function receives the same None values either way.
RecordReading ==
    /\ pc = "store"
    /\ Len(log_buffer) < MaxLogBuffer
    /\ \E inlet \in StoreInlets, outlet \in StoreOutlets, delta_t_c \in StoreOverrides,
          kwargs \in {"none", "message"}, reported \in BOOLEAN :
         /\ ~reported => (inlet = None /\ outlet = None /\ delta_t_c = None
                          /\ kwargs = "message")
         /\ app_status' = record_status(app_status, current_settings,
                                        inlet, outlet, delta_t_c, kwargs)
         /\ temperature_history' = record_history(temperature_history, current_settings,
                                                  inlet, outlet, kwargs)
         /\ log_buffer' = record_log(log_buffer, inlet, outlet)
         /\ log_pending' = (log_buffer' # << >>)
         /\ fx' = [op |-> "record", inlet |-> inlet, outlet |-> outlet,
                   delta_t_c |-> delta_t_c, kwargs |-> kwargs, reported |-> reported,
                   history_before |-> temperature_history, log_before |-> log_buffer]
    /\ UNCHANGED << current_settings, pwm_duty, pc, http, store_frame >>

\* set_pump_speed(x), lines 236-246, as the manual branch calls it (line 418)
StoreSetPumpSpeed ==
    /\ pc = "store"
    /\ \E x \in StoreSpeeds :
         /\ app_status' = set_pump_speed_status(app_status, current_settings, pwm_pump, x)
         /\ pwm_duty' = set_pump_speed_duty(pwm_duty, current_settings, pwm_pump, x)
    /\ fx' = [NoCall EXCEPT !.op = "set_pump_speed"]
    /\ UNCHANGED << current_settings, pc, http, log_pending, store_vars, store_frame >>

\* stop_pump(), line 249: set_pump_speed(0) publishes pump_speed and releases the lock
StopPumpSpeed ==
    /\ pc = "store"
    /\ app_status' = set_pump_speed_status(app_status, current_settings, pwm_pump, 0)
    /\ pwm_duty' = set_pump_speed_duty(pwm_duty, current_settings, pwm_pump, 0)
    /\ pc' = "stop_pump_msg"
    /\ fx' = [NoCall EXCEPT !.op = "stop_pump"]
    /\ UNCHANGED << current_settings, http, log_pending, store_vars, store_frame >>

\* stop_pump(), line 250: update_status(system_message=..., thermal_power_watts="N/A")
StopPumpMessage ==
    /\ pc = "stop_pump_msg"
    /\ app_status' = [app_status EXCEPT !.system_message = "pump_stopped",
                                        !.thermal_power_watts = NA]
    /\ pc' = "store"
    /\ UNCHANGED << current_settings, pwm_duty, http, fx, log_pending, store_vars,
                    store_frame >>

\* write_log_buffer_to_csv(), lines 272-286, with a non-empty buffer
FlushLog ==
    /\ pc = "store"
    /\ log_buffer # << >>
    /\ log_buffer' = << >>
    /\ log_pending' = FALSE
    /\ fx' = [NoCall EXCEPT !.op = "flush"]
    /\ UNCHANGED << current_settings, app_status, pwm_duty, pc, http,
                    temperature_history, store_frame >>

\* settings_page POST, lines 564-601, for a form that changes MAX_HISTORY_POINTS
\* or DISPLAY_TEMP_UNIT
SettingsApplyStore ==
    /\ http = "idle"
    /\ \E form \in StoreForms :
         LET new_settings_candidate ==
                 [current_settings EXCEPT !.MAX_HISTORY_POINTS = form[1],
                                          !.DISPLAY_TEMP_UNIT = form[2]]
         IN  /\ new_settings_candidate # current_settings
             /\ current_settings' = new_settings_candidate
    /\ http' = "saving"
    /\ fx' = [NoCall EXCEPT !.op = "settings"]
    /\ UNCHANGED << app_status, pwm_duty, pc, log_pending, store_vars, store_frame >>

NextStore ==
    \/ RecordReading
    \/ StoreSetPumpSpeed
    \/ StopPumpSpeed
    \/ StopPumpMessage
    \/ FlushLog
    \/ SettingsApplyStore
    \/ SettingsSave

SpecStore == InitStore /\ [][NextStore]_vars

\* The state right after a call of update_status_and_history: no other store
\* operation has run and the deque has not been recreated since
JustRecorded ==
    /\ fx.op = "record"
    /\ temperature_history.maxlen = fx.history_before.maxlen

\* C15: in every state, also between the steps of a settings update that changes
\* MAX_HISTORY_POINTS and whether or not the save succeeds, the history ring holds
\* at most the configured MAX_HISTORY_POINTS points, and an append to a full ring
\* evicts exactly its oldest point.
C15_HistoryWithinConfiguredCapacity ==
    /\ Len(temperature_history.items) <= current_settings.MAX_HISTORY_POINTS
    /\ (JustRecorded /\ temperature_history # fx.history_before
          /\ Len(fx.history_before.items) = fx.history_before.maxlen)
         => /\ Len(temperature_history.items) = Len(fx.history_before.items)
            /\ SubSeq(temperature_history.items, 1, Len(temperature_history.items) - 1)
                 = Tail(fx.history_before.items)

\* C16: update_status_and_history called with two valid temperatures sets
\* delta_t_display to outlet minus inlet with two decimals, whatever the display
\* unit and the supplied override are, and appends exactly one HistoryPoint and
\* exactly one LogRecord holding the two temperatures rounded to two decimals.
C16_ValidPairRecorded ==
    (JustRecorded /\ BothFloat(fx.inlet, fx.outlet))
        => /\ app_status.delta_t_display
                = [na |-> FALSE, val |-> Round2(fx.outlet - fx.inlet), digits |-> 2]
           /\ temperature_history
                = DequeAppend(fx.history_before,
                              [inlet |-> Round2(fx.inlet), outlet |-> Round2(fx.outlet)])
           /\ log_buffer
                = Append(fx.log_before, [inlet_temp_c |-> Round2(fx.inlet),
                                         outlet_temp_c |-> Round2(fx.outlet)])

\* C17: update_status_and_history called with the inlet or the outlet missing
\* appends no LogRecord; it appends exactly one null HistoryPoint when the call
\* reports a reading pair (also together with a system_message), and nothing when
\* the call carries only status fields.
C17_MissingReadingRecorded ==
    (JustRecorded /\ ~BothFloat(fx.inlet, fx.outlet))
        => /\ log_buffer = fx.log_before
           /\ temperature_history
                = IF fx.reported THEN DequeAppend(fx.history_before, NullPoint)
                  ELSE fx.history_before

\* C19: in every status snapshot thermal_power_watts is "N/A" whenever pump_speed
\* is 0 or delta_t_display is "N/A".
C19_PowerNullWhenPumpOff ==
    (app_status.pump_speed = 0 \/ app_status.delta_t_display = NA)
        => app_status.thermal_power_watts = NA

----------------------------------------------------------------------------
(* calculate_estimated_thermal_power applied directly to a grid of inputs *)

PowerDeltas == {None, -5000, 0, 1500, 5000}
PowerDuties == {None, 0, 20, 100}
PowerFlows == {0, 20, 60}

InitPower ==
    /\ \E flow \in PowerFlows :
         current_settings = [InitialSettings EXCEPT !.MAX_PUMP_FLOW_RATE_LPM = flow]
    /\ app_status = [ pump_speed |-> 0, target_pump_speed |-> 0,
                      system_message |-> "pwm_initialized",
                      optimal_pump_speed_found |-> InitialSettings.MIN_PUMP_SPEED,
                      max_delta_t_found_display |-> NA,
                      control_mode |-> InitialSettings.CONTROL_MODE ]
    /\ pwm_pump = "PWM"
    /\ pwm_duty = 0
    /\ control_thread_running = TRUE
    /\ pc = "call_power"
    /\ control_mode = "auto"
    /\ due = FALSE
    /\ elapsed = 0
    /\ since_top = 0
    /\ opt = NoOpt
    /\ cyc = NoCyc
    /\ eng = NoEng
    /\ http = "idle"
    /\ http_count = 0
    /\ \E delta \in PowerDeltas, duty \in PowerDuties :
         fx = [delta_t_celsius |-> delta, duty |-> duty, called |-> FALSE,
               result |-> NoPower]
    /\ log_pending = FALSE
    /\ log_buffer = << >>
    /\ temperature_history = EmptyDeque(InitialSettings.MAX_HISTORY_POINTS)
    /\ manual_ticked = FALSE
    /\ stop_pc = "none"

\* calculate_estimated_thermal_power(fx.delta_t_celsius, fx.duty), lines 253-256
CallPower ==
    /\ pc = "call_power"
    /\ ~fx.called
    /\ fx' = [fx EXCEPT !.called = TRUE,
                        !.result = calculate_estimated_thermal_power(
                                       current_settings, fx.delta_t_celsius, fx.duty)]
    /\ UNCHANGED << current_settings, app_status, pwm_pump, pwm_duty,
                    control_thread_running, pc, control_mode, due, elapsed, since_top,
                    opt, cyc, eng, http, http_count, log_pending, store_vars,
                    manual_ticked, stop_pc >>

NextPower == CallPower

SpecPower == InitPower /\ [][NextPower]_vars

\* The inputs for which the claim leaves the power undefined
PowerUndefinedInput == fx.delta_t_celsius = None \/ fx.duty = None \/ fx.duty = 0

\* The result is the fraction (duty/100 * flow/60) * 1.0 * 4186 * deltaT, with
\* deltaT = delta_t_celsius / 1000 degrees: num / den = duty*flow*4186*delta / 6000000.
\* All deltas of the grid are multiples of 500, which keeps the products small.
PowerEqualsFormula ==
    /\ fx.result.den > 0
    /\ fx.result.num * 6000
         = fx.result.den * (fx.duty * current_settings.MAX_PUMP_FLOW_RATE_LPM
                             * 2093 * (fx.delta_t_celsius \div 500))

\* C18 as claimed: the power is None whenever the duty is 0 or the delta-T is
\* unavailable, and for every other input it is positive and equal to
\* (duty/100 * MAX_PUMP_FLOW_RATE_LPM/60) * 1.0 * 4186 * deltaT.
C18_PowerNoneOrPositive ==
    fx.called =>
        IF PowerUndefinedInput THEN ~fx.result.known
        ELSE /\ fx.result.known
             /\ fx.result.num > 0
             /\ PowerEqualsFormula

\* C18 as amended: the power is None whenever the duty is 0 or the delta-T is
\* unavailable, and for every other input it is equal to
\* (duty/100 * MAX_PUMP_FLOW_RATE_LPM/60) * 1.0 * 4186 * deltaT, which is positive
\* exactly when deltaT and MAX_PUMP_FLOW_RATE_LPM are both positive, 0 when one
\* of them is 0, and negative when deltaT is negative.
C18_PowerNoneOrFormula ==
    fx.called =>
        IF PowerUndefinedInput THEN ~fx.result.known
        ELSE /\ fx.result.known
             /\ PowerEqualsFormula
             /\ (fx.result.num > 0) =
                  (fx.delta_t_celsius > 0 /\ current_settings.MAX_PUMP_FLOW_RATE_LPM > 0)
             /\ (fx.result.num = 0) =
                  (fx.delta_t_celsius = 0 \/ current_settings.MAX_PUMP_FLOW_RATE_LPM = 0)

\* C18 witness: a running pump and an outlet colder than the inlet give a
\* negative power.
C18_Witness ==
    /\ fx.called /\ fx.duty = 20 /\ fx.delta_t_celsius = -5000
    /\ fx.result.known /\ fx.result.num < 0

----------------------------------------------------------------------------
(* DailyStatsTracker: update_daily_stats driven tick by tick while the      *)
(* local date advances.  fx holds the wall-clock date and the arguments and *)
(* pre-state of the last tick.  Energy is kept in watt-seconds, the         *)
(* numerator of (power * seconds) / 3600.0.                                 *)

StatsPowers == {None, -3, 0, 7}
StatsSeconds == {1, 2}
MaxOnTime == 4
MaxDay == 3

\* Mutant: the power is added without the test for a positive value
EnergyCountsWhenKnown(pump_is_on_flag, current_power_watts) ==
    pump_is_on_flag /\ current_power_watts # None

\* Lines 266-268: the tick adds energy
EnergyCounts(pump_is_on_flag, current_power_watts) ==
    pump_is_on_flag /\ current_power_watts # None /\ current_power_watts > 0

\* app_status after update_daily_stats (lines 259-269); today is date.today()
update_daily_stats(S, today, pump_is_on_flag, seconds_elapsed, current_power_watts) ==
    LET reset == [S EXCEPT !.pump_on_time_today_s = 0,
                           !.energy_harvested_today_wh = 0,
                           !.last_stats_reset_date = today]
        R == IF S.last_stats_reset_date # today THEN reset ELSE S
    IN  [R EXCEPT
           !.pump_on_time_today_s =
               IF pump_is_on_flag THEN @ + seconds_elapsed ELSE @,
           !.energy_harvested_today_wh =
               IF EnergyCounts(pump_is_on_flag, current_power_watts)
               THEN @ + current_power_watts * seconds_elapsed ELSE @]

InitStats ==
    /\ current_settings = InitialSettings
    /\ app_status = [ pump_on_time_today_s |-> 0, energy_harvested_today_wh |-> 0,
                      last_stats_reset_date |-> 1,
                      pump_speed |-> 0, target_pump_speed |-> 0,
                      system_message |-> "pwm_initialized",
                      optimal_pump_speed_found |-> InitialSettings.MIN_PUMP_SPEED,
                      max_delta_t_found_display |-> NA,
                      control_mode |-> InitialSettings.CONTROL_MODE ]
    /\ pwm_pump = "PWM"
    /\ pwm_duty = 0
    /\ control_thread_running = TRUE
    /\ pc = "stats"
    /\ control_mode = "auto"
    /\ due = FALSE
    /\ elapsed = 0
    /\ since_top = 0
    /\ opt = NoOpt
    /\ cyc = NoCyc
    /\ eng = NoEng
    /\ http = "idle"
    /\ http_count = 0
    /\ fx = [today |-> 1, op |-> "none", pump_is_on_flag |-> FALSE,
             seconds_elapsed |-> 0, current_power_watts |-> None,
             before |-> app_status]
    /\ log_pending = FALSE
    /\ log_buffer = << >>
    /\ temperature_history = EmptyDeque(InitialSettings.MAX_HISTORY_POINTS)
    /\ manual_ticked = FALSE
    /\ stop_pc = "none"

stats_frame == << current_settings, pwm_pump, pwm_duty, control_thread_running, pc,
                 control_mode, due, elapsed, since_top, opt, cyc, eng, http,
                 http_count, log_pending, store_vars, manual_ticked, stop_pc >>

\* update_daily_stats(...), lines 258-269, as line 412 calls it once per iteration
StatsTick ==
    /\ pc = "stats"
    /\ app_status.pump_on_time_today_s < MaxOnTime
    /\ \E pump_is_on_flag \in BOOLEAN, seconds_elapsed \in StatsSeconds,
          current_power_watts \in StatsPowers :
         /\ app_status' = update_daily_stats(app_status, fx.today, pump_is_on_flag,
                                             seconds_elapsed, current_power_watts)
         /\ fx' = [today |-> fx.today, op |-> "tick",
                   pump_is_on_flag |-> pump_is_on_flag,
                   seconds_elapsed |-> seconds_elapsed,
                   current_power_watts |-> current_power_watts,
                   before |-> app_status]
    /\ UNCHANGED stats_frame

\* The local date changes between two ticks
DayPasses ==
    /\ pc = "stats"
    /\ fx.today < MaxDay
    /\ fx' = [fx EXCEPT !.today = @ + 1, !.op = "clock"]
    /\ UNCHANGED << app_status, stats_frame >>

NextStats == StatsTick \/ DayPasses

SpecStats == InitStats /\ [][NextStats]_vars

\* C20: a tick of update_daily_stats resets both accumulators to 0 exactly when
\* the local date differs from last_stats_reset_date (so on the first tick of a
\* day and on no later tick of it); without a reset neither accumulator
\* decreases; on-time grows by seconds_elapsed exactly on ticks with the pump on,
\* and energy grows by power * seconds_elapsed (/ 3600 Wh) exactly on ticks with
\* the pump on and a known positive power.
C20_DailyStatsResetAndAccumulate ==
    fx.op = "tick" =>
        LET was_reset == fx.before.last_stats_reset_date # fx.today
            on_base == IF was_reset THEN 0 ELSE fx.before.pump_on_time_today_s
            wh_base == IF was_reset THEN 0 ELSE fx.before.energy_harvested_today_wh
            on_grows == fx.pump_is_on_flag
            wh_grows == /\ fx.pump_is_on_flag
                        /\ fx.current_power_watts # None
                        /\ fx.current_power_watts > 0
        IN  /\ app_status.last_stats_reset_date = fx.today
            /\ app_status.pump_on_time_today_s
                 = on_base + (IF on_grows THEN fx.seconds_elapsed ELSE 0)
            /\ app_status.energy_harvested_today_wh
                 = wh_base + (IF wh_grows
                              THEN fx.current_power_watts * fx.seconds_elapsed ELSE 0)
            /\ ~was_reset =>
                 /\ app_status.pump_on_time_today_s >= fx.before.pump_on_time_today_s
                 /\ app_status.energy_harvested_today_wh
                      >= fx.before.energy_harvested_today_wh

\* C20 witness: the first tick of a new day, with the pump on and a known positive
\* power, found both accumulators above 0, reset them and counted this tick.
C20_Witness ==
    /\ fx.op = "tick"
    /\ fx.before.last_stats_reset_date # fx.today
    /\ fx.before.pump_on_time_today_s > 0
    /\ fx.before.energy_harvested_today_wh > 0
    /\ fx.pump_is_on_flag /\ fx.current_power_watts = 7
    /\ app_status.pump_on_time_today_s = fx.seconds_elapsed
    /\ app_status.energy_harvested_today_wh = 7 * fx.seconds_elapsed

----------------------------------------------------------------------------
(* The control thread against the wall clock: the loop of                  *)
(* control_logic_thread_func in Auto mode with its daily-stats tick, its    *)
(* sweeps, its log flush and its watchdog kick, while no request changes    *)
(* the configuration.  Every time.sleep(1) is one second of real time.      *)
(* fx counts the seconds: all of them, those slept with the pump running,   *)
(* and those since last_watchdog_kick_time, since the kick actually written *)
(* and since last_log_save_time.  elapsed and since_top are exact here.     *)
(* thermal_power_watts is in tenths of a watt, so the energy accumulator is *)
(* in tenths of a watt-second.                                              *)

ClockInlets == {None, 30000}
ClockOutlets == {None, 36000}
MaxSeconds == 7

ClockSettings ==
    [ ENABLE_HARDWARE_WATCHDOG |-> TRUE, WATCHDOG_KICK_INTERVAL_S |-> 2,
      LOG_SAVE_INTERVAL_S |-> 3 ] @@ InitialSettings

\* float(power_str) if power_str != "N/A", else the 0.0 of line 405
PowerVal(power_str) == IF power_str.na THEN 0 ELSE power_str.val

\* dt_c = out - in when both readings are truthy (lines 365, 381, 421, 429)
DeltaTArg(in_temp_c, out_temp_c) ==
    IF Truthy(in_temp_c) /\ Truthy(out_temp_c) THEN out_temp_c - in_temp_c ELSE None

\* stop_pump() as one step: both of its status updates
stop_pump_all(S, cfg, pwm) ==
    [stop_pump_status(S, cfg, pwm) EXCEPT !.thermal_power_watts = NA]

\* The counters after time.sleep(1) with the pump at this duty
Slept(f, duty) ==
    [f EXCEPT !.seconds = @ + 1,
              !.on_seconds = IF duty > 0 THEN @ + 1 ELSE @,
              !.since_kick_time = @ + 1,
              !.since_kick = @ + 1,
              !.since_log_time = @ + 1]

\* The state after line 398: sensors found, PWM started at 0, watchdog opened,
\* the three timestamps taken and the daily statistics reset
InitClock ==
    /\ current_settings = ClockSettings
    /\ app_status = [ inlet_temp_display |-> NA, outlet_temp_display |-> NA,
                      delta_t_display |-> NA, thermal_power_watts |-> NA,
                      pump_speed |-> 0, target_pump_speed |-> 0,
                      system_message |-> "pwm_initialized",
                      optimal_pump_speed_found |-> ClockSettings.MIN_PUMP_SPEED,
                      max_delta_t_found_display |-> NA,
                      control_mode |-> ClockSettings.CONTROL_MODE,
                      pump_on_time_today_s |-> 0, energy_harvested_today_wh |-> 0,
                      last_stats_reset_date |-> 1 ]
    /\ pwm_pump = "PWM"
    /\ pwm_duty = 0
    /\ control_thread_running = TRUE
    /\ pc = "loop_top"
    /\ control_mode = "auto"
    /\ due = FALSE
    /\ elapsed = ClockSettings.LOOP_INTERVAL_S
    /\ since_top = 0
    /\ opt = NoOpt
    /\ cyc = NoCyc
    /\ eng = NoEng
    /\ http = "idle"
    /\ http_count = 0
    /\ fx = [seconds |-> 0, on_seconds |-> 0, since_kick_time |-> 0, since_kick |-> 0,
             since_log_time |-> 0, ticks |-> 0]
    /\ log_pending = FALSE
    /\ log_buffer = << >>
    /\ temperature_history = EmptyDeque(InitialSettings.MAX_HISTORY_POINTS)
    /\ manual_ticked = FALSE
    /\ stop_pc = "none"

clock_frame == << current_settings, pwm_pump, control_thread_running, cyc, eng, http,
                 http_count, store_vars, manual_ticked, stop_pc >>

\* Lines 399-414: the while test, the clock and interval reads, the daily-stats
\* tick, the mode read
ClockLoopTop ==
    /\ pc = "loop_top"
    /\ control_thread_running
    /\ app_status' = update_daily_stats(app_status, 1, app_status.pump_speed > 0, 1,
                                        PowerVal(app_status.thermal_power_watts))
    /\ fx' = [fx EXCEPT !.ticks = @ + 1]
    /\ control_mode' = current_settings.CONTROL_MODE
    /\ due' = (elapsed >= current_settings.LOOP_INTERVAL_S)
    /\ since_top' = 0
    /\ pc' = current_settings.CONTROL_MODE
    /\ UNCHANGED << pwm_duty, elapsed, opt, log_pending, clock_frame >>

\* Line 426 false
ClockAutoIdle ==
    /\ pc = "auto" /\ ~due
    /\ pc' = "housekeeping"
    /\ UNCHANGED << app_status, pwm_duty, control_mode, due, elapsed, since_top, opt,
                    fx, log_pending, clock_frame >>

\* Lines 426-458: read the pair, record it, decide, stop or enter the engine
ClockAutoEvaluate ==
    /\ pc = "auto" /\ due
    /\ \E inlet \in ClockInlets, outlet \in ClockOutlets :
         LET cfg == current_settings
             recorded == record_status(app_status, cfg, inlet, outlet,
                                       DeltaTArg(inlet, outlet), "message")
             pump_on == recorded.pump_speed > 0
             d == AutoDecision(cfg, inlet, outlet, pump_on)
             stopped == IF AutoStops(d, pump_on)
                        THEN stop_pump_all(recorded, cfg, pwm_pump) ELSE recorded
         IN  /\ log_pending' = (log_pending \/ BothFloat(inlet, outlet))
             /\ app_status' = WithMessage(stopped, AutoMessage(d))
             /\ pwm_duty' = IF AutoStops(d, pump_on)
                            THEN set_pump_speed_duty(pwm_duty, cfg, pwm_pump, 0)
                            ELSE pwm_duty
             /\ IF AutoOptimizes(d)
                THEN /\ pc' = "opt_entry"
                     /\ UNCHANGED elapsed
                ELSE /\ pc' = "housekeeping"
                     /\ elapsed' = since_top
    /\ UNCHANGED << control_mode, due, since_top, opt, fx, clock_frame >>

\* Lines 339-355: start speed, the status update of line 346, the initial inlet
\* read, abort or build the sweep
ClockOptEntry ==
    /\ pc = "opt_entry"
    /\ \E initial_inlet \in ClockInlets :
         LET cfg == current_settings
             start_speed == StartSpeed(cfg, app_status.optimal_pump_speed_found)
             announced == record_status(app_status, cfg, None, None, None, "message")
         IN  IF OptAborts(cfg, initial_inlet)
             THEN /\ app_status' = WithMessage(
                         record_status(stop_pump_all(announced, cfg, pwm_pump), cfg,
                                       initial_inlet, None, None, "message"),
                         "opt_aborted")
                  /\ pwm_duty' = set_pump_speed_duty(pwm_duty, cfg, pwm_pump, 0)
                  /\ opt' = NoOpt
                  /\ elapsed' = since_top
                  /\ pc' = "housekeeping"
             ELSE /\ app_status' = WithMessage(announced, "optimizing")
                  /\ opt' = [NoOpt EXCEPT !.speeds = SpeedsToCheck(cfg, start_speed),
                               !.i = 1, !.opt_speed = start_speed]
                  /\ pc' = IF SpeedsToCheck(cfg, start_speed) = << >>
                           THEN "opt_conclude" ELSE "opt_iter"
                  /\ UNCHANGED << pwm_duty, elapsed >>
    /\ UNCHANGED << control_mode, due, since_top, fx, log_pending, clock_frame >>

\* Lines 356-360: the flag is set: command the next candidate
ClockOptIter ==
    /\ pc = "opt_iter"
    /\ control_thread_running
    /\ LET cfg == current_settings
           speed_to_test == opt.speeds[opt.i]
       IN  /\ app_status' = WithMessage(
                  set_pump_speed_status(app_status, cfg, pwm_pump, speed_to_test),
                  "opt_stabilizing")
           /\ pwm_duty' = set_pump_speed_duty(pwm_duty, cfg, pwm_pump, speed_to_test)
           /\ opt' = [opt EXCEPT !.stab_left = cfg.STABILIZATION_TIME_S]
    /\ pc' = "opt_stab"
    /\ UNCHANGED << control_mode, due, elapsed, since_top, fx, log_pending, clock_frame >>

\* Lines 361-363: one time.sleep(1) of the stabilization wait
ClockOptStabilize ==
    /\ pc = "opt_stab" /\ opt.stab_left > 0
    /\ control_thread_running
    /\ fx.seconds < MaxSeconds
    /\ opt' = [opt EXCEPT !.stab_left = @ - 1]
    /\ elapsed' = elapsed + 1
    /\ since_top' = since_top + 1
    /\ fx' = Slept(fx, pwm_duty)
    /\ UNCHANGED << app_status, pwm_duty, pc, control_mode, due, log_pending,
                    clock_frame >>

\* Lines 364-372: sample the pair at this speed, track the best, safety stop
ClockOptSample ==
    /\ pc = "opt_stab" /\ opt.stab_left = 0
    /\ \E in_temp \in ClockInlets, out_temp \in ClockOutlets :
         LET cfg == current_settings
             speed_to_test == opt.speeds[opt.i]
             valid == SampleValid(in_temp, out_temp)
             better == valid /\ out_temp - in_temp > opt.max_dt
             recorded == WithMessage(
                             record_status(app_status, cfg, in_temp, out_temp,
                                           DeltaTArg(in_temp, out_temp), "message"),
                             "opt_tested")
         IN  /\ log_pending' = (log_pending \/ BothFloat(in_temp, out_temp))
             /\ IF SweepSafetyStop(cfg, in_temp, out_temp)
                THEN /\ app_status' = WithMessage(
                            record_status(stop_pump_all(recorded, cfg, pwm_pump), cfg,
                                          None, out_temp, None, "message"),
                            "opt_safety")
                     /\ pwm_duty' = set_pump_speed_duty(pwm_duty, cfg, pwm_pump, 0)
                     /\ opt' = NoOpt
                     /\ elapsed' = since_top
                     /\ pc' = "housekeeping"
                ELSE /\ app_status' = recorded
                     /\ opt' = [opt EXCEPT !.i = @ + 1,
                                  !.max_dt = IF better THEN out_temp - in_temp ELSE @,
                                  !.opt_speed = IF better THEN speed_to_test ELSE @]
                     /\ pc' = IF opt.i = Len(opt.speeds) THEN "opt_conclude" ELSE "opt_iter"
                     /\ UNCHANGED << pwm_duty, elapsed >>
    /\ UNCHANGED << control_mode, due, since_top, fx, clock_frame >>

\* Lines 374-382: a viable speed was found: store it, command it, read once more
ClockOptConcludeFound ==
    /\ pc = "opt_conclude"
    /\ opt.max_dt >= current_settings.DELTA_T_OFF
    /\ \E final_in \in ClockInlets, final_out \in ClockOutlets :
         LET cfg == current_settings
             stored == [app_status EXCEPT
                          !.max_delta_t_found_display =
                              convert_temp_for_display(opt.max_dt, cfg.DISPLAY_TEMP_UNIT),
                          !.optimal_pump_speed_found = opt.opt_speed]
             commanded == set_pump_speed_status(stored, cfg, pwm_pump, opt.opt_speed)
         IN  /\ log_pending' = (log_pending \/ BothFloat(final_in, final_out))
             /\ app_status' = WithMessage(
                    record_status(commanded, cfg, final_in, final_out,
                                  DeltaTArg(final_in, final_out), "message"),
                    "opt_complete")
             /\ pwm_duty' = set_pump_speed_duty(pwm_duty, cfg, pwm_pump, opt.opt_speed)
    /\ opt' = NoOpt
    /\ elapsed' = since_top
    /\ pc' = "housekeeping"
    /\ UNCHANGED << control_mode, due, since_top, fx, clock_frame >>

\* Lines 383-386: no speed reached DELTA_T_OFF: stop
ClockOptConcludeNone ==
    /\ pc = "opt_conclude"
    /\ opt.max_dt < current_settings.DELTA_T_OFF
    /\ LET cfg == current_settings
           shown == IF opt.max_dt > INITIAL_MAX_DELTA_T THEN opt.max_dt ELSE None
           stored == [app_status EXCEPT
                        !.max_delta_t_found_display =
                            convert_temp_for_display(shown, cfg.DISPLAY_TEMP_UNIT)]
       IN  /\ app_status' = WithMessage(stop_pump_all(stored, cfg, pwm_pump),
                                        "opt_no_speed")
           /\ pwm_duty' = set_pump_speed_duty(pwm_duty, cfg, pwm_pump, 0)
    /\ opt' = NoOpt
    /\ elapsed' = since_top
    /\ pc' = "housekeeping"
    /\ UNCHANGED << control_mode, due, since_top, fx, log_pending, clock_frame >>

\* Lines 459-463: the log flush and the watchdog kick, both timed against the
\* current_time of line 400, then time.sleep(1)
ClockHousekeeping ==
    /\ pc = "housekeeping"
    /\ fx.seconds < MaxSeconds
    /\ LET cfg == current_settings
           flush == fx.since_log_time - since_top >= cfg.LOG_SAVE_INTERVAL_S
           kick == /\ cfg.ENABLE_HARDWARE_WATCHDOG
                   /\ fx.since_kick_time - since_top >= cfg.WATCHDOG_KICK_INTERVAL_S
           done == [fx EXCEPT
                      !.since_log_time = IF flush THEN since_top ELSE @,
                      !.since_kick_time = IF kick THEN since_top ELSE @,
                      !.since_kick = IF kick THEN 0 ELSE @]
       IN  /\ log_pending' = IF flush THEN FALSE ELSE log_pending
           /\ fx' = Slept(done, pwm_duty)
    /\ elapsed' = elapsed + 1
    /\ pc' = "loop_top"
    /\ UNCHANGED << app_status, pwm_duty, control_mode, due, since_top, opt,
                    clock_frame >>

NextClock ==
    \/ ClockLoopTop
    \/ ClockAutoIdle
    \/ ClockAutoEvaluate
    \/ ClockOptEntry
    \/ ClockOptIter
    \/ ClockOptStabilize
    \/ ClockOptSample
    \/ ClockOptConcludeFound
    \/ ClockOptConcludeNone
    \/ ClockHousekeeping

SpecClock == InitClock /\ [][NextClock]_vars

\* The daily-stats tick of this iteration has just been applied
JustTicked == pc = "auto" /\ fx.ticks > 0

\* C21: right after each daily-stats tick, pump_on_time_today_s equals the
\* number of seconds that have passed with the pump duty above 0 since the
\* statistics were reset, the seconds of a sweep's stabilization waits included:
\* one tick has been applied for every elapsed second.
C21_OnTimeCountsEverySecond ==
    JustTicked => /\ app_status.pump_on_time_today_s = fx.on_seconds
                  /\ fx.ticks = fx.seconds + 1

\* C22: with the hardware watchdog enabled, in every state of the running
\* control loop, a sweep in progress included, at most
\* WATCHDOG_KICK_INTERVAL_S + 1 seconds have passed since the last watchdog kick
\* (or since the watchdog was opened).
C22_WatchdogKickedWithinInterval ==
    current_settings.ENABLE_HARDWARE_WATCHDOG
        => fx.since_kick <= current_settings.WATCHDOG_KICK_INTERVAL_S + 1

----------------------------------------------------------------------------
(* The log buffer and the durable log under the two threads that flush:     *)
(* the control thread (line 460 inside the loop, line 464 when it leaves    *)
(* it) and the main thread's cleanup (lines 883-888).  A flush is two       *)
(* steps: the swap under data_lock (lines 274-276) and the file write       *)
(* outside the lock (lines 278-286), which may raise.  fx holds the         *)
(* durable log file, each thread's data_to_write, the main thread's         *)
(* position and the number of records accepted so far; a record's           *)
(* timestamp is its arrival number.                                         *)

MaxRecords == 3

\* The dict appended at line 323 by the k-th valid reading
LogEntry(k) == [timestamp |-> k] @@ LogRecord(20004, 25000)

InitLog ==
    /\ current_settings = InitialSettings
    /\ app_status = [ pump_speed |-> 0, target_pump_speed |-> 0,
                      system_message |-> "pwm_initialized",
                      optimal_pump_speed_found |-> InitialSettings.MIN_PUMP_SPEED,
                      max_delta_t_found_display |-> NA,
                      control_mode |-> InitialSettings.CONTROL_MODE ]
    /\ pwm_pump = "PWM"
    /\ pwm_duty = 0
    /\ control_thread_running = TRUE
    /\ pc = "log_loop"
    /\ control_mode = "auto"
    /\ due = FALSE
    /\ elapsed = 0
    /\ since_top = 0
    /\ opt = NoOpt
    /\ cyc = NoCyc
    /\ eng = NoEng
    /\ http = "idle"
    /\ http_count = 0
    /\ fx = [file |-> << >>, thread_batch |-> << >>, main_batch |-> << >>,
             thread_ret |-> "log_loop", main |-> "serving", accepted |-> 0,
             failed |-> FALSE]
    /\ log_pending = FALSE
    /\ log_buffer = << >>
    /\ temperature_history = EmptyDeque(InitialSettings.MAX_HISTORY_POINTS)
    /\ manual_ticked = FALSE
    /\ stop_pc = "none"

log_frame == << current_settings, app_status, pwm_pump, pwm_duty, control_mode, due,
               elapsed, since_top, opt, cyc, eng, http, http_count,
               temperature_history, manual_ticked, stop_pc >>

\* The process has not reached the end of __main__ (line 891), which also ends
\* the daemon control thread
ProcessAlive == fx.main # "terminated"

\* log_buffer after line 276: log_buffer.clear()
SwappedBuffer(buf) == << >>

\* The file after lines 281-284 when the write succeeds: rows appended in order
Written(file, data_to_write) == file \o data_to_write

\* Line 323 in the control thread: a valid reading pair is recorded
LogAppend ==
    /\ pc = "log_loop"
    /\ ProcessAlive
    /\ fx.accepted < MaxRecords
    /\ log_buffer' = Append(log_buffer, LogEntry(fx.accepted + 1))
    /\ log_pending' = TRUE
    /\ fx' = [fx EXCEPT !.accepted = @ + 1]
    /\ UNCHANGED << control_thread_running, pc, log_frame >>

\* Line 399 in the control thread: the flag is found cleared, the loop is left
LogLoopExit ==
    /\ pc = "log_loop"
    /\ ProcessAlive
    /\ ~control_thread_running
    /\ pc' = "log_final"
    /\ UNCHANGED << control_thread_running, fx, log_pending, log_buffer, log_frame >>

\* write_log_buffer_to_csv() in the control thread, lines 274-277: called at
\* line 460 inside the loop or at line 464 after it
ThreadFlushSwap ==
    /\ pc \in {"log_loop", "log_final"}
    /\ ProcessAlive
    /\ LET after == IF pc = "log_loop" THEN "log_loop" ELSE "exited"
       IN  IF log_buffer = << >>
           THEN /\ pc' = after
                /\ UNCHANGED << fx, log_buffer, log_pending >>
           ELSE /\ fx' = [fx EXCEPT !.thread_batch = log_buffer, !.thread_ret = after]
                /\ log_buffer' = SwappedBuffer(log_buffer)
                /\ log_pending' = (log_buffer' # << >>)
                /\ pc' = "log_write"
    /\ pc' # pc
    /\ UNCHANGED << control_thread_running, log_frame >>

\* write_log_buffer_to_csv() in the control thread, lines 278-286
ThreadFlushWrite ==
    /\ pc = "log_write"
    /\ ProcessAlive
    /\ \E ok \in BOOLEAN :
         fx' = [fx EXCEPT !.file = IF ok THEN Written(@, fx.thread_batch) ELSE @,
                          !.failed = @ \/ ~ok,
                          !.thread_batch = << >>]
    /\ pc' = fx.thread_ret
    /\ UNCHANGED << control_thread_running, log_pending, log_buffer, log_frame >>

\* __main__, line 884: the server has returned or was interrupted
MainRequestsShutdown ==
    /\ fx.main = "serving"
    /\ control_thread_running' = FALSE
    /\ fx' = [fx EXCEPT !.main = "joining"]
    /\ UNCHANGED << pc, log_pending, log_buffer, log_frame >>

\* Lines 885-887: join(timeout=15) returns, because the control thread has ended
\* or because the 15 seconds have passed
MainJoinReturns ==
    /\ fx.main = "joining"
    /\ \E timed_out \in BOOLEAN :
         /\ ~timed_out => pc = "exited"
         /\ timed_out => pc # "exited"
    /\ fx' = [fx EXCEPT !.main = "flush"]
    /\ UNCHANGED << control_thread_running, pc, log_pending, log_buffer, log_frame >>

\* write_log_buffer_to_csv() in the main thread (line 888), lines 274-277
MainFlushSwap ==
    /\ fx.main = "flush"
    /\ IF log_buffer = << >>
       THEN /\ fx' = [fx EXCEPT !.main = "terminated"]
            /\ UNCHANGED << log_buffer, log_pending >>
       ELSE /\ fx' = [fx EXCEPT !.main_batch = log_buffer, !.main = "write"]
            /\ log_buffer' = SwappedBuffer(log_buffer)
            /\ log_pending' = (log_buffer' # << >>)
    /\ UNCHANGED << control_thread_running, pc, log_frame >>

\* write_log_buffer_to_csv() in the main thread, lines 278-286, then lines 889-891
MainFlushWrite ==
    /\ fx.main = "write"
    /\ \E ok \in BOOLEAN :
         fx' = [fx EXCEPT !.file = IF ok THEN Written(@, fx.main_batch) ELSE @,
                          !.failed = @ \/ ~ok,
                          !.main_batch = << >>,
                          !.main = "terminated"]
    /\ UNCHANGED << control_thread_running, pc, log_pending, log_buffer, log_frame >>

NextLog ==
    \/ LogAppend
    \/ LogLoopExit
    \/ ThreadFlushSwap
    \/ ThreadFlushWrite
    \/ MainRequestsShutdown
    \/ MainJoinReturns
    \/ MainFlushSwap
    \/ MainFlushWrite

SpecLog == InitLog /\ [][NextLog]_vars

\* The timestamps of a sequence of records
Stamps(records) == { records[i].timestamp : i \in 1 .. Len(records) }

\* C23 (first half): no record is in the durable log twice
LogWrittenAtMostOnce ==
    \A i, j \in 1 .. Len(fx.file) :
        i # j => fx.file[i].timestamp # fx.file[j].timestamp

\* C23 (second half): the durable log is in arrival order
LogInArrivalOrder ==
    \A i, j \in 1 .. Len(fx.file) :
        i < j => fx.file[i].timestamp <= fx.file[j].timestamp

\* C23: under every interleaving of recordings, the control thread's flushes and
\* the main thread's shutdown flush, every record is in the durable log at most
\* once and the records are in the log in the order in which they were appended
\* to the buffer.
C23_LogOnceAndInOrder == LogWrittenAtMostOnce /\ LogInArrivalOrder

\* C24: a failed disk write loses no record: every record accepted into the
\* buffer is still pending (in the buffer or in a batch being written, to be
\* retried by the next flush) or is in the durable log.
C24_FailedBatchRetried ==
    \A k \in 1 .. fx.accepted :
        k \in Stamps(log_buffer) \cup Stamps(fx.thread_batch)
              \cup Stamps(fx.main_batch) \cup Stamps(fx.file)

----------------------------------------------------------------------------
(* The Auto cycle on a synthetic panel: the inlet stays at 30.0 C and the   *)
(* outlet is inlet + 6 - speed/50 for the duty the pump runs at, under the  *)
(* configuration min = 20, max = 100, step = 5 and the default thresholds.  *)

ScenarioStabilizationTimes == {0, 1, 2}

ScenarioSettings ==
    [InitialSettings EXCEPT !.MIN_PUMP_SPEED = 20, !.MAX_PUMP_SPEED = 100,
                            !.PUMP_SPEED_STEP = 5]

\* What read_temp_c delivers for the two sensors, in milli-degrees
ScenarioInlet == 30000
ScenarioOutlet(duty) == ScenarioInlet + 6000 - duty * 20

\* The state after line 398: settings loaded, pump off
InitScenario ==
    /\ \E stabilization_s \in ScenarioStabilizationTimes :
         current_settings =
             [ScenarioSettings EXCEPT !.STABILIZATION_TIME_S = stabilization_s]
    /\ app_status = [ pump_speed |-> 0, target_pump_speed |-> 0,
                      system_message |-> "pwm_initialized",
                      optimal_pump_speed_found |-> ScenarioSettings.MIN_PUMP_SPEED,
                      max_delta_t_found_display |-> NA,
                      control_mode |-> ScenarioSettings.CONTROL_MODE ]
    /\ pwm_pump = "PWM"
    /\ pwm_duty = 0
    /\ control_thread_running = TRUE
    /\ pc = "loop_top"
    /\ control_mode = "auto"
    /\ due = FALSE
    /\ elapsed = ScenarioSettings.LOOP_INTERVAL_S
    /\ since_top = 0
    /\ opt = NoOpt
    /\ cyc = NoCyc
    /\ eng = NoEng
    /\ http = "idle"
    /\ http_count = 0
    /\ fx = [x |-> 0, called |-> FALSE]
    /\ log_pending = FALSE
    /\ log_buffer = << >>
    /\ temperature_history = EmptyDeque(InitialSettings.MAX_HISTORY_POINTS)
    /\ manual_ticked = FALSE
    /\ stop_pc = "none"

ScenarioAutoEvaluate == AutoEvaluateWith(ScenarioInlet, ScenarioOutlet(pwm_duty))
ScenarioOptEntry == OptEntryWith(ScenarioInlet)
ScenarioOptSample == OptSampleWith(ScenarioInlet, ScenarioOutlet(pwm_duty))
ScenarioOptConcludeFound ==
    OptConcludeFoundWith(ScenarioInlet,
                         ScenarioOutlet(ActualDutyCycle(current_settings, opt.opt_speed)))

NextScenario ==
    \/ LoopTop
    \/ AutoIdle
    \/ ScenarioAutoEvaluate
    \/ ScenarioOptEntry
    \/ OptIter
    \/ OptStabilize
    \/ ScenarioOptSample
    \/ ScenarioOptConcludeFound
    \/ Housekeeping

SpecScenario == InitScenario /\ [][NextScenario]_vars

\* The speeds the scenario's sweep tests
ScenarioTested == PyRange(20, 101, 5)

\* The highest tested speed whose delta-T is >= 0 and whose outlet is within
\* the cutoff
ScenarioHighestViable ==
    LET viable == { s \in ScenarioTested :
                      /\ ScenarioOutlet(s) - ScenarioInlet >= 0
                      /\ ScenarioOutlet(s) <= MAX_OUTLET_TEMP_CUTOFF }
    IN  CHOOSE s \in viable : \A t \in viable : t <= s

\* C25: in the scenario the Auto cycle invokes the engine, and when the engine
\* concludes, the speed stored in optimal_pump_speed_found and commanded to the
\* pump is the highest tested speed whose delta-T is still >= 0 and whose outlet
\* does not exceed the safety cutoff.
C25_ScenarioOptimumIsHighestViable ==
    /\ (cyc.mode = "auto" /\ cyc.read) => cyc.engine
    /\ eng.outcome = "concluded"
         => /\ app_status.optimal_pump_speed_found = ScenarioHighestViable
            /\ pwm_duty = ScenarioHighestViable

----------------------------------------------------------------------------
(* read_temp_raw / read_temp_c applied to every shape of the sensor file.   *)
(* A line is what the code looks at: whether it ends in YES after strip(),  *)
(* and what follows its first "t=" (nothing: no "t=" in the line).  fx      *)
(* holds the locals of read_temp_c, the raw reads made so far and the       *)
(* outcome of the call.                                                     *)

SensorLine(yes, t, num) == [yes |-> yes, t |-> t, num |-> num]
CrcLine(yes) == SensorLine(yes, "absent", 0)
DataLine(millis) == SensorLine(FALSE, "number", millis)
GarbledLine == SensorLine(FALSE, "garbage", 0)

\* read_temp_raw returned None: no path, or open/readlines raised (lines 206, 210)
RawMissing == [missing |-> TRUE, lines |-> << >>]
RawLines(lines) == [missing |-> FALSE, lines |-> lines]

RawPayloads ==
    { RawMissing,
      RawLines(<< >>),
      RawLines(<< CrcLine(FALSE) >>),
      RawLines(<< CrcLine(TRUE) >>),
      RawLines(<< CrcLine(FALSE), DataLine(23125) >>),
      RawLines(<< CrcLine(TRUE), CrcLine(FALSE) >>),
      RawLines(<< CrcLine(TRUE), GarbledLine >>),
      RawLines(<< CrcLine(TRUE), DataLine(0) >>),
      RawLines(<< CrcLine(TRUE), DataLine(23125) >>) }

\* `not lines` / `lines and ...`: None and the empty list are falsy
RawFalsy(raw) == raw.missing \/ raw.lines = << >>

\* Line 217: lines and lines[0].strip().endswith('YES')
FirstLineValid(raw) == ~RawFalsy(raw) /\ raw.lines[1].yes

NoRead == [lines |-> RawMissing, read_attempts |-> 0, raw_reads |-> << >>,
           outcome |-> "none", value |-> None]

InitRead ==
    /\ current_settings = InitialSettings
    /\ app_status = [ pump_speed |-> 0, target_pump_speed |-> 0,
                      system_message |-> "pwm_initialized",
                      optimal_pump_speed_found |-> InitialSettings.MIN_PUMP_SPEED,
                      max_delta_t_found_display |-> NA,
                      control_mode |-> InitialSettings.CONTROL_MODE ]
    /\ pwm_pump = "PWM"
    /\ pwm_duty = 0
    /\ control_thread_running = TRUE
    /\ pc = "read_call"
    /\ control_mode = "auto"
    /\ due = FALSE
    /\ elapsed = 0
    /\ since_top = 0
    /\ opt = NoOpt
    /\ cyc = NoCyc
    /\ eng = NoEng
    /\ http = "idle"
    /\ http_count = 0
    /\ fx = NoRead
    /\ log_pending = FALSE
    /\ log_buffer = << >>
    /\ temperature_history = EmptyDeque(InitialSettings.MAX_HISTORY_POINTS)
    /\ manual_ticked = FALSE
    /\ stop_pc = "none"

read_frame == << current_settings, app_status, pwm_pump, pwm_duty,
                control_thread_running, control_mode, due, elapsed, since_top, opt,
                cyc, eng, http, http_count, log_pending, store_vars, manual_ticked,
                stop_pc >>

\* The call has ended with this outcome
ReadEnds(f, outcome, value) ==
    /\ fx' = [f EXCEPT !.outcome = outcome, !.value = value]
    /\ pc' = "read_done"

\* Lines 213-215: the initial raw read
ReadCall ==
    /\ pc \in {"read_call", "read_done"}
    /\ \E raw \in RawPayloads :
         LET entered == [NoRead EXCEPT !.lines = raw, !.raw_reads = << raw >>]
         IN  IF RawFalsy(raw)
             THEN ReadEnds(entered, "returned", None)
             ELSE /\ fx' = [entered EXCEPT !.read_attempts = 3, !.outcome = "running"]
                  /\ pc' = "read_loop"
    /\ UNCHANGED read_frame

\* Lines 216-222: the first line is valid: parse the second line
ReadParse ==
    /\ pc = "read_loop"
    /\ fx.read_attempts > 0
    /\ FirstLineValid(fx.lines)
    /\ IF Len(fx.lines.lines) < 2
       THEN ReadEnds(fx, "IndexError", None)
       ELSE LET second == fx.lines.lines[2]
            IN  IF second.t = "number" THEN ReadEnds(fx, "returned", second.num)
                ELSE ReadEnds(fx, "returned", None)
    /\ UNCHANGED read_frame

\* Lines 216-217, 223: the first line is not valid: sleep, read again
ReadRetry ==
    /\ pc = "read_loop"
    /\ fx.read_attempts > 0
    /\ ~FirstLineValid(fx.lines)
    /\ \E raw \in RawPayloads :
         fx' = [fx EXCEPT !.lines = raw, !.raw_reads = Append(@, raw),
                          !.read_attempts = @ - 1]
    /\ UNCHANGED << pc, read_frame >>

\* Lines 216, 224: the attempts are used up
ReadExhausted ==
    /\ pc = "read_loop"
    /\ fx.read_attempts = 0
    /\ ReadEnds(fx, "returned", None)
    /\ UNCHANGED read_frame

NextRead == ReadCall \/ ReadParse \/ ReadRetry \/ ReadExhausted

SpecRead == InitRead /\ [][NextRead]_vars

\* The payload is a valid reading: two lines, the first ending in YES, the
\* second with a number after "t="
ValidPayload(raw) ==
    /\ ~raw.missing
    /\ Len(raw.lines) >= 2
    /\ raw.lines[1].yes
    /\ raw.lines[2].t = "number"

\* C26: read_temp_c never raises; it makes at most 4 raw reads (the initial one
\* and 3 retries); and it returns a number only for a valid payload, the number
\* of that payload: for a missing device, an empty file, a first line not ending
\* in YES, a single-line payload, a second line without "t=" and a non-numeric
\* value it returns None, never 0.
C26_ReadNeverRaises ==
    /\ fx.outcome \in {"none", "running", "returned"}
    /\ Len(fx.raw_reads) <= 4
    /\ fx.outcome = "returned"
         => IF fx.value # None
            THEN ValidPayload(fx.lines) /\ fx.value = fx.lines.lines[2].num
            ELSE ~ValidPayload(fx.lines) \/ fx.read_attempts = 0

----------------------------------------------------------------------------
(* The control loop in Auto mode under configurations that load_settings    *)
(* and settings_page accept without any range check: every converted value  *)
(* is stored as it is (lines 108-114, 581-588).                             *)

\* << PUMP_SPEED_STEP, LOOP_INTERVAL_S, STABILIZATION_TIME_S,
\*    MIN_PUMP_SPEED, MAX_PUMP_SPEED >>
UncheckedForms ==
    { << 10, 2, 1, 20, 30 >>,
      << 0, 2, 1, 20, 30 >>,
      << -5, 2, 1, 20, 30 >>,
      << 10, 0, 1, 20, 30 >>,
      << 10, 2, -1, 20, 30 >>,
      << 10, 2, 1, 50, 30 >> }

UncheckedSettings(form) ==
    [InitialSettings EXCEPT !.PUMP_SPEED_STEP = form[1], !.LOOP_INTERVAL_S = form[2],
                            !.STABILIZATION_TIME_S = form[3],
                            !.MIN_PUMP_SPEED = form[4], !.MAX_PUMP_SPEED = form[5]]

\* The state after line 398 for each of these configurations
InitUnchecked ==
    /\ \E form \in UncheckedForms : current_settings = UncheckedSettings(form)
    /\ app_status = [ pump_speed |-> 0, target_pump_speed |-> 0,
                      system_message |-> "pwm_initialized",
                      optimal_pump_speed_found |-> current_settings.MIN_PUMP_SPEED,
                      max_delta_t_found_display |-> NA,
                      control_mode |-> current_settings.CONTROL_MODE ]
    /\ pwm_pump = "PWM"
    /\ pwm_duty = 0
    /\ control_thread_running = TRUE
    /\ pc = "loop_top"
    /\ control_mode = "auto"
    /\ due = FALSE
    /\ elapsed = current_settings.LOOP_INTERVAL_S
    /\ since_top = 0
    /\ opt = NoOpt
    /\ cyc = NoCyc
    /\ eng = NoEng
    /\ http = "idle"
    /\ http_count = 0
    /\ fx = [x |-> 0, called |-> FALSE]
    /\ log_pending = FALSE
    /\ log_buffer = << >>
    /\ temperature_history = EmptyDeque(InitialSettings.MAX_HISTORY_POINTS)
    /\ manual_ticked = FALSE
    /\ stop_pc = "none"

NextUnchecked ==
    \/ LoopTop
    \/ AutoIdle
    \/ AutoEvaluate
    \/ Housekeeping
    \/ OptEntry
    \/ OptIter
    \/ OptStabilize
    \/ OptSample
    \/ OptConcludeFound
    \/ OptConcludeNone

SpecUnchecked == InitUnchecked /\ [][NextUnchecked]_vars

\* C27: whatever configuration the settings collaborator hands over, also one
\* with PUMP_SPEED_STEP <= 0, LOOP_INTERVAL_S <= 0, STABILIZATION_TIME_S < 0 or
\* MIN_PUMP_SPEED > MAX_PUMP_SPEED, no exception leaves optimize_pump_speed or
\* control_logic_thread_func: the control thread is never ended by a failure.
C27_InvalidConfigurationNeverCrashes ==
    pc # "crashed" /\ eng.outcome # "raised"

----------------------------------------------------------------------------
(* set_pump_speed and stop_pump applied directly, with and without an       *)
(* initialized actuator.  fx holds the call made last, its argument and the *)
(* status and hardware duty it found.                                       *)

ActuatorInputs == {-5, 0, 10, 25, 150}
\* << pump_speed, target_pump_speed >> published before the call
ActuatorPublished == { << 0, 0 >>, << 0, 25 >>, << 25, 25 >>, << 30, 100 >> }
ActuatorPowers == { NA, [na |-> FALSE, val |-> 1395, digits |-> 1] }

InitActuator ==
    /\ current_settings = InitialSettings
    /\ pwm_pump \in {"None", "PWM"}
    /\ \E published \in ActuatorPublished, power \in ActuatorPowers :
         \* before setup_pwm no speed other than 0 has been published
         /\ pwm_pump = "None" => published[1] = 0
         /\ app_status = [ inlet_temp_display |-> NA, outlet_temp_display |-> NA,
                           delta_t_display |-> NA, thermal_power_watts |-> power,
                           pump_speed |-> published[1],
                           target_pump_speed |-> published[2],
                           system_message |-> "web_server_started",
                           optimal_pump_speed_found |-> InitialSettings.MIN_PUMP_SPEED,
                           max_delta_t_found_display |-> NA,
                           control_mode |-> InitialSettings.CONTROL_MODE ]
         /\ pwm_duty = published[1]
    /\ control_thread_running = TRUE
    /\ pc = "actuator"
    /\ control_mode = "auto"
    /\ due = FALSE
    /\ elapsed = 0
    /\ since_top = 0
    /\ opt = NoOpt
    /\ cyc = NoCyc
    /\ eng = NoEng
    /\ http = "idle"
    /\ http_count = 0
    /\ fx = [op |-> "none", x |-> 0, before |-> app_status, duty_before |-> pwm_duty]
    /\ log_pending = FALSE
    /\ log_buffer = << >>
    /\ temperature_history = EmptyDeque(InitialSettings.MAX_HISTORY_POINTS)
    /\ manual_ticked = FALSE
    /\ stop_pc = "none"

actuator_frame == << current_settings, pwm_pump, control_thread_running, pc,
                    control_mode, due, elapsed, since_top, opt, cyc, eng, http,
                    http_count, log_pending, store_vars, manual_ticked, stop_pc >>

\* set_pump_speed(x), lines 236-246
ActuatorSetSpeed ==
    /\ pc = "actuator"
    /\ \E x \in ActuatorInputs :
         /\ app_status' = set_pump_speed_status(app_status, current_settings, pwm_pump, x)
         /\ pwm_duty' = set_pump_speed_duty(pwm_duty, current_settings, pwm_pump, x)
         /\ fx' = [op |-> "set_pump_speed", x |-> x, before |-> app_status,
                   duty_before |-> pwm_duty]
    /\ UNCHANGED actuator_frame

\* stop_pump(), lines 248-250
ActuatorStop ==
    /\ pc = "actuator"
    /\ app_status' = stop_pump_all(app_status, current_settings, pwm_pump)
    /\ pwm_duty' = set_pump_speed_duty(pwm_duty, current_settings, pwm_pump, 0)
    /\ fx' = [op |-> "stop_pump", x |-> 0, before |-> app_status,
              duty_before |-> pwm_duty]
    /\ UNCHANGED actuator_frame

NextActuator == ActuatorSetSpeed \/ ActuatorStop

SpecActuator == InitActuator /\ [][NextActuator]_vars

\* The call made last found the actuator uninitialized
CalledUninitialized == pwm_pump = "None" /\ fx.op # "none"

\* C28 (set_pump_speed and the frame of stop_pump): no hardware command, the
\* published speeds unchanged, and set_pump_speed reports the error
UninitializedFrame ==
    CalledUninitialized
        => /\ pwm_duty = fx.duty_before
           /\ app_status.pump_speed = fx.before.pump_speed
           /\ app_status.target_pump_speed = fx.before.target_pump_speed
           /\ fx.op = "set_pump_speed" => app_status.system_message = "pwm_not_initialized"

\* C28: with pwm_pump None, set_pump_speed issues no hardware command, leaves
\* pump_speed and target_pump_speed unchanged and reports an error status, and
\* after a stop_pump in that state the status does not say that the pump is
\* stopped.
C28_UninitializedActuatorUnchanged ==
    /\ UninitializedFrame
    /\ (CalledUninitialized /\ fx.op = "stop_pump")
         => app_status.system_message # "pump_stopped"

----------------------------------------------------------------------------
(* Start-up with a failing sensor discovery.  __main__ starts the control   *)
(* thread at line 878 and publishes "Web server started" at line 879; the   *)
(* thread runs load_settings and discover_sensors concurrently, so the two  *)
(* status updates happen in either order.  fx.main is the main thread's     *)
(* position; the handlers are served once flask_app.run has been reached.   *)

\* The settings file read by load_settings in __main__ (line 871)
StoredSettings ==
    { [InitialSettings EXCEPT !.CONTROL_MODE = mode,
                              !.MANUAL_PUMP_SPEED_SETTING = speed,
                              !.MIN_PUMP_SPEED = form[1],
                              !.MIN_INLET_TEMP_TO_RUN = form[2]] :
        mode \in {"auto", "manual"}, speed \in ManualSpeedChoices,
        form \in SettingsForms }

InitDiscovery ==
    /\ current_settings \in StoredSettings
    /\ app_status = [ pump_speed |-> 0,
                      target_pump_speed |->
                          IF current_settings.CONTROL_MODE = "manual"
                          THEN current_settings.MANUAL_PUMP_SPEED_SETTING ELSE 0,
                      system_message |-> "initializing",
                      optimal_pump_speed_found |-> current_settings.MIN_PUMP_SPEED,
                      max_delta_t_found_display |-> NA,
                      control_mode |-> current_settings.CONTROL_MODE ]
    /\ pwm_pump = "None"
    /\ pwm_duty = 0
    /\ control_thread_running = TRUE
    /\ pc = "start"
    /\ control_mode = "auto"
    /\ due = FALSE
    /\ elapsed = 0
    /\ since_top = 0
    /\ opt = NoOpt
    /\ cyc = NoCyc
    /\ eng = NoEng
    /\ http = "idle"
    /\ http_count = 0
    /\ fx = [main |-> "started_thread"]
    /\ log_pending = FALSE
    /\ log_buffer = << >>
    /\ temperature_history = EmptyDeque(InitialSettings.MAX_HISTORY_POINTS)
    /\ manual_ticked = FALSE
    /\ stop_pc = "none"

\* Lines 390-391 when discover_sensors() returns False
DiscoveryFails == Startup /\ pc' = "exited"

\* __main__, line 879: update_status(system_message="Web server started. ...")
MainPublishesStarted ==
    /\ fx.main = "started_thread"
    /\ app_status' = WithMessage(app_status, "web_server_started")
    /\ fx' = [fx EXCEPT !.main = "serving"]
    /\ UNCHANGED << current_settings, thread_vars, control_thread_running,
                    history_vars, http, http_count, log_pending, store_vars,
                    manual_ticked, stop_pc >>

ServedSetControlMode == fx.main = "serving" /\ SetControlMode
ServedSetManualPumpSpeed == fx.main = "serving" /\ SetManualPumpSpeed
ServedSettingsApply == fx.main = "serving" /\ SettingsApply
ServedSettingsSave == fx.main = "serving" /\ SettingsSave

NextDiscovery ==
    \/ DiscoveryFails
    \/ MainPublishesStarted
    \/ ServedSetControlMode
    \/ ServedSetManualPumpSpeed
    \/ ServedSettingsApply
    \/ ServedSettingsSave

SpecDiscovery == InitDiscovery /\ [][NextDiscovery]_vars

\* discover_sensors() has returned False and the control thread has ended
DiscoveryFailed == pc = "exited" /\ pwm_pump = "None"

\* C29 (control part): after a failed discovery the loop does not run: no pump
\* command, no reading recorded
NoControlAfterFailedDiscovery ==
    DiscoveryFailed
        => /\ ~control_thread_running
           /\ pwm_duty = 0
           /\ app_status.pump_speed = 0
           /\ log_buffer = << >> /\ ~log_pending
           /\ temperature_history.items = << >>

\* C29: after a failed sensor discovery the control loop does not run (no pump
\* command is issued, no reading is recorded), the fault is reported in
\* system_message, and the presentation layer still accepts configuration.
C29_FailedDiscoveryReported ==
    /\ NoControlAfterFailedDiscovery
    /\ DiscoveryFailed => app_status.system_message = "sensor_discovery_error"

----------------------------------------------------------------------------
(* Readings of exactly 0.0 degrees C *)

\* An Auto evaluation has just handled a pair in which no reading is absent
AutoPairPresent ==
    /\ cyc.mode = "auto" /\ cyc.read
    /\ pc \in {"housekeeping", "opt_entry"}
    /\ BothFloat(cyc.inlet, cyc.outlet)

\* C30: a reading of exactly 0.0 is a reading: an Auto evaluation of a pair in
\* which no reading is absent applies its temperature checks and never takes
\* the sensor-error path.
C30_ZeroIsAReading ==
    AutoPairPresent => app_status.system_message # "auto_sensor_error"

----------------------------------------------------------------------------
(* Auto cycles around the two thresholds: the sensors deliver pairs whose   *)
(* delta-T lies below DELTA_T_OFF, between DELTA_T_OFF and DELTA_T_ON, and   *)
(* above DELTA_T_ON, under the default configuration.                       *)

HysteresisInlets == {None, 5000, 30000}
HysteresisOutlets == {None, 31000, 33000, 36000, 80000}

\* The state after line 398: settings loaded, pump off
InitHysteresis ==
    /\ current_settings = InitialSettings
    /\ app_status = [ pump_speed |-> 0, target_pump_speed |-> 0,
                      system_message |-> "pwm_initialized",
                      optimal_pump_speed_found |-> InitialSettings.MIN_PUMP_SPEED,
                      max_delta_t_found_display |-> NA,
                      control_mode |-> InitialSettings.CONTROL_MODE ]
    /\ pwm_pump = "PWM"
    /\ pwm_duty = 0
    /\ control_thread_running = TRUE
    /\ pc = "loop_top"
    /\ control_mode = "auto"
    /\ due = FALSE
    /\ elapsed = InitialSettings.LOOP_INTERVAL_S
    /\ since_top = 0
    /\ opt = NoOpt
    /\ cyc = NoCyc
    /\ eng = NoEng
    /\ http = "idle"
    /\ http_count = 0
    /\ fx = [x |-> 0, called |-> FALSE]
    /\ log_pending = FALSE
    /\ log_buffer = << >>
    /\ temperature_history = EmptyDeque(InitialSettings.MAX_HISTORY_POINTS)
    /\ manual_ticked = FALSE
    /\ stop_pc = "none"

HysteresisAutoEvaluate ==
    \E inlet \in HysteresisInlets, outlet \in HysteresisOutlets :
        AutoEvaluateWith(inlet, outlet)
HysteresisOptEntry ==
    \E initial_inlet \in HysteresisInlets : OptEntryWith(initial_inlet)
HysteresisOptSample ==
    \E in_temp \in HysteresisInlets, out_temp \in HysteresisOutlets :
        OptSampleWith(in_temp, out_temp)
HysteresisOptConcludeFound ==
    \E final_in \in HysteresisInlets, final_out \in HysteresisOutlets :
        OptConcludeFoundWith(final_in, final_out)

NextHysteresis ==
    \/ LoopTop
    \/ AutoIdle
    \/ HysteresisAutoEvaluate
    \/ HysteresisOptEntry
    \/ OptIter
    \/ OptStabilize
    \/ HysteresisOptSample
    \/ HysteresisOptConcludeFound
    \/ OptConcludeNone
    \/ Housekeeping

SpecHysteresis == InitHysteresis /\ [][NextHysteresis]_vars

\* One Auto evaluation that finds the pump off (line 431 false)
EvaluationFromOff ==
    /\ pc = "auto" /\ due /\ app_status.pump_speed = 0
    /\ cyc'.mode = "auto" /\ cyc'.read

\* C31: an Auto evaluation that finds the pump off leaves it off and does not
\* invoke the engine when delta-T is below DELTA_T_ON (also when it is at or
\* above DELTA_T_OFF); it invokes the engine only for a valid pair with
\* outlet <= cutoff, inlet >= minimum and delta-T >= DELTA_T_ON.  By induction
\* the pump stays off over any run of such cycles.
C31_HysteresisAcrossCycles ==
    [][ EvaluationFromOff =>
          LET cfg == current_settings
              inlet == cyc'.inlet
              outlet == cyc'.outlet
              present == inlet # None /\ outlet # None
          IN  /\ pc' = "opt_entry"
                   => /\ present
                      /\ outlet <= cfg.MAX_OUTLET_TEMP_CUTOFF
                      /\ inlet >= cfg.MIN_INLET_TEMP_TO_RUN
                      /\ outlet - inlet >= cfg.DELTA_T_ON
              /\ (present /\ outlet - inlet < cfg.DELTA_T_ON)
                   => /\ pc' = "housekeeping" /\ ~cyc'.engine
                      /\ pwm_duty' = 0
                      /\ app_status'.pump_speed = 0 ]_vars

\* The pump has run and was stopped, and a later cycle with delta-T between the
\* two thresholds has left it off
C31_Witness ==
    /\ pc = "housekeeping" /\ cyc.mode = "auto" /\ cyc.read /\ ~cyc.pump_on
    /\ cyc.inlet = 30000 /\ cyc.outlet = 33000
    /\ ~cyc.engine /\ pwm_duty = 0
    /\ app_status.max_delta_t_found_display # NA

----------------------------------------------------------------------------
(* Shutdown during a sweep, for stabilization times of 1 to 3 seconds and   *)
(* sweeps of two and three candidates.                                      *)

SweepStabilizationTimes == {1, 2, 3}
SweepMaxSpeeds == {30, 40}

InitSweepShutdown ==
    /\ \E stabilization_s \in SweepStabilizationTimes, max_speed \in SweepMaxSpeeds :
         current_settings =
             [InitialSettings EXCEPT !.STABILIZATION_TIME_S = stabilization_s,
                                     !.MAX_PUMP_SPEED = max_speed]
    /\ app_status = [ pump_speed |-> 0, target_pump_speed |-> 0,
                      system_message |-> "pwm_initialized",
                      optimal_pump_speed_found |-> InitialSettings.MIN_PUMP_SPEED,
                      max_delta_t_found_display |-> NA,
                      control_mode |-> InitialSettings.CONTROL_MODE ]
    /\ pwm_pump = "PWM"
    /\ pwm_duty = 0
    /\ control_thread_running = TRUE
    /\ pc = "loop_top"
    /\ control_mode = "auto"
    /\ due = FALSE
    /\ elapsed = InitialSettings.LOOP_INTERVAL_S
    /\ since_top = 0
    /\ opt = NoOpt
    /\ cyc = NoCyc
    /\ eng = NoEng
    /\ http = "idle"
    /\ http_count = 0
    /\ fx = [x |-> 0, called |-> FALSE]
    /\ log_pending = FALSE
    /\ log_buffer = << >>
    /\ temperature_history = EmptyDeque(InitialSettings.MAX_HISTORY_POINTS)
    /\ manual_ticked = FALSE
    /\ stop_pc = "none"

NextSweepShutdown ==
    \/ LoopTop
    \/ AutoIdle
    \/ HysteresisAutoEvaluate
    \/ HysteresisOptEntry
    \/ OptIter
    \/ OptStabilize
    \/ HysteresisOptSample
    \/ HysteresisOptConcludeFound
    \/ OptConcludeNone
    \/ Housekeeping
    \/ ThreadShutdown
    \/ RequestShutdown

SpecSweepShutdown == InitSweepShutdown /\ [][NextSweepShutdown]_vars

\* C32: once control_thread_running is false the engine sleeps no further
\* stabilization slice for the candidate under test (the slice during which
\* the flag fell is the step that preceded the request) and starts no
\* stabilization for another candidate.
C32_NoSliceAfterShutdownRequest ==
    [][ ~control_thread_running
          => /\ ~(pc = "opt_stab" /\ pc' = "opt_stab")
             /\ ~(pc = "opt_iter" /\ pc' = "opt_stab")
             /\ pc \in {"opt_iter", "opt_stab"}
                  => since_top' = since_top ]_vars

\* The flag fell after the first of three slices of the first candidate, and
\* the engine returned without sleeping the other two or sampling
C32_Witness ==
    /\ ~control_thread_running /\ stop_pc = "opt_stab"
    /\ current_settings.STABILIZATION_TIME_S = 3
    /\ current_settings.MAX_PUMP_SPEED = 40
    /\ eng.outcome = "interrupted" /\ eng.samples = 0 /\ eng.cmds = 1
    /\ since_top = 1

----------------------------------------------------------------------------
(* The candidate list of a sweep (lines 339-355) as a function of the       *)
(* configuration and of the stored best speed.  The stored speed is the     *)
(* result of an earlier sweep, possibly run under an earlier configuration. *)

CandidateMinChoices == {20, 25}
CandidateMaxChoices == {30, 50}
CandidateSteps == {5, 10}
\* optimal_pump_speed_found: 0 stands for "N/A"
CandidatePriors == {0, 15, 20, 25, 30, 35, 45, 50, 60}

InitCandidates ==
    /\ \E lo \in CandidateMinChoices, hi \in CandidateMaxChoices,
          step \in CandidateSteps :
         current_settings = [InitialSettings EXCEPT !.MIN_PUMP_SPEED = lo,
                                                    !.MAX_PUMP_SPEED = hi,
                                                    !.PUMP_SPEED_STEP = step]
    /\ \E prior \in CandidatePriors :
         app_status = [ pump_speed |-> 0, target_pump_speed |-> 0,
                        system_message |-> "auto_dt_on_optimizing",
                        optimal_pump_speed_found |-> prior,
                        max_delta_t_found_display |-> NA,
                        control_mode |-> InitialSettings.CONTROL_MODE ]
    /\ pwm_pump = "PWM"
    /\ pwm_duty = 0
    /\ control_thread_running = TRUE
    /\ pc = "call"
    /\ control_mode = "auto"
    /\ due = FALSE
    /\ elapsed = 0
    /\ since_top = 0
    /\ opt = NoOpt
    /\ cyc = NoCyc
    /\ eng = NoEng
    /\ http = "idle"
    /\ http_count = 0
    /\ fx = [called |-> FALSE, speeds_to_check |-> << >>]
    /\ log_pending = FALSE
    /\ log_buffer = << >>
    /\ temperature_history = EmptyDeque(InitialSettings.MAX_HISTORY_POINTS)
    /\ manual_ticked = FALSE
    /\ stop_pc = "none"

\* Lines 339-344 and 354-355 of optimize_pump_speed
BuildCandidates ==
    /\ pc = "call"
    /\ ~fx.called
    /\ fx' = [called |-> TRUE,
              speeds_to_check |->
                  SpeedsToCheck(current_settings,
                                StartSpeed(current_settings,
                                           app_status.optimal_pump_speed_found))]
    /\ UNCHANGED << current_settings, app_status, thread_vars, control_thread_running,
                    history_vars, http, http_count, log_pending, store_vars,
                    manual_ticked, stop_pc >>

NextCandidates == BuildCandidates

SpecCandidates == InitCandidates /\ [][NextCandidates]_vars

\* The list is strictly ascending and every candidate lies in [min, max]
CandidatesAscendingInBand ==
    fx.called =>
        LET l == fx.speeds_to_check
        IN  /\ \A i \in 1 .. Len(l) - 1 : l[i] < l[i + 1]
            /\ \A i \in 1 .. Len(l) :
                 /\ current_settings.MIN_PUMP_SPEED <= l[i]
                 /\ l[i] <= current_settings.MAX_PUMP_SPEED

\* The list contains every speed min + k * step that is <= max
CandidatesCoverGrid ==
    fx.called =>
        LET cfg == current_settings
            l == fx.speeds_to_check
        IN  \A s \in PyRange(cfg.MIN_PUMP_SPEED, cfg.MAX_PUMP_SPEED + 1,
                             cfg.PUMP_SPEED_STEP) :
                \E i \in 1 .. Len(l) : l[i] = s

\* C33: for step > 0, min <= max and any stored best speed, the candidate list
\* is strictly ascending, lies in [min, max] and contains every speed
\* min + k * step that is <= max.
C33_CandidatesCoverRange == CandidatesAscendingInBand /\ CandidatesCoverGrid

----------------------------------------------------------------------------
(* The conclusion of a sweep that tested all its candidates *)

\* The engine has returned from its conclusion and the loop has not moved on
SweepConcluded(outcome) == pc = "housekeeping" /\ eng.outcome = outcome

\* Lines 374-382: the best speed is stored and commanded
ViableConclusionCommandsBest ==
    SweepConcluded("concluded")
        => /\ app_status.optimal_pump_speed_found \in PyRange(
                  current_settings.MIN_PUMP_SPEED,
                  current_settings.MAX_PUMP_SPEED + 1,
                  current_settings.PUMP_SPEED_STEP)
           /\ pwm_duty = ActualDutyCycle(current_settings,
                                         app_status.optimal_pump_speed_found)
           /\ app_status.max_delta_t_found_display # NA

\* Lines 383-386: the pump is stopped and the stored best speed is kept
NoViableConclusionStops ==
    SweepConcluded("no_viable_speed")
        => /\ pwm_duty = 0
           /\ app_status.optimal_pump_speed_found = eng.entry_opt

\* C34: a sweep that exhausts its candidates stores and commands the cycle's
\* best speed when its best delta-T is >= DELTA_T_OFF; otherwise it stops the
\* pump and leaves optimal_pump_speed_found and max_delta_t_found_display as
\* they were when the engine was entered.
C34_ConclusionStoresOnlyViableBest ==
    /\ ViableConclusionCommandsBest
    /\ NoViableConclusionStops
    /\ SweepConcluded("no_viable_speed")
         => app_status.max_delta_t_found_display = eng.entry_max

----------------------------------------------------------------------------
(* The retries of read_temp_c *)

\* Some raw read of the call delivered a valid payload
SomeReadValid == \E i \in 1 .. Len(fx.raw_reads) : ValidPayload(fx.raw_reads[i])

\* The retries that are examined: a call that returns None without a valid
\* payload among its first three raw reads
ExaminedReadsDecide ==
    (pc = "read_done" /\ fx.outcome = "returned" /\ fx.value = None)
        => \A i \in 1 .. Min(3, Len(fx.raw_reads)) : ~ValidPayload(fx.raw_reads[i])

\* C35: read_temp_c makes up to 3 retry reads while the payload is present but
\* not valid, and returns the parsed temperature whenever the initial read or
\* any of the retry reads is valid; it returns None only if none of them is.
C35_AnyValidReadIsReturned ==
    (pc = "read_done" /\ fx.outcome = "returned")
        => /\ Len(fx.raw_reads) <= 4
           /\ SomeReadValid => fx.value # None
           /\ fx.value # None => SomeReadValid

----------------------------------------------------------------------------
(* Status-only updates and the temperature display fields *)

\* The three temperature display fields of a snapshot
TemperatureDisplays(S) ==
    << S.inlet_temp_display, S.outlet_temp_display, S.delta_t_display >>

\* C36: a status-only update issued through update_status_and_history (a
\* system_message and no reading, as line 346 issues it) leaves the inlet,
\* outlet and delta-T display fields as the most recent recorded reading pair
\* set them.
C36_StatusOnlyKeepsTemperatures ==
    [][ (fx'.op = "record" /\ ~fx'.reported)
          => TemperatureDisplays(app_status') = TemperatureDisplays(app_status) ]_vars

----------------------------------------------------------------------------
(* update_status called directly, with the keyword sets its call sites use  *)
(* (lines 234, 246, 250, 359, ...), a call that names a temperature field   *)
(* and calls that carry a name that is not a snapshot field.  The call      *)
(* sites pass integers and strings, which line 333 stores as they are.      *)

\* Mutant: the merge resets the temperature fields it is not given, as
\* update_status_and_history does
update_status_resetting(S, kwargs) ==
    [k \in DOMAIN S |->
        IF k \in DOMAIN kwargs THEN kwargs[k]
        ELSE IF k \in {"inlet_temp_display", "outlet_temp_display", "delta_t_display"}
             THEN NA
             ELSE S[k]]

\* app_status after update_status(**kwargs), lines 328-333
update_status(S, kwargs) ==
    [k \in DOMAIN S |-> IF k \in DOMAIN kwargs THEN kwargs[k] ELSE S[k]]

UpdateStatusCalls ==
    { [system_message |-> "opt_stabilizing"],
      [system_message |-> "auto_checking"],
      [pump_speed |-> 25, target_pump_speed |-> 25],
      [pump_speed |-> 0, target_pump_speed |-> 0, system_message |-> "pwm_initialized"],
      [system_message |-> "pump_stopped", thermal_power_watts |-> NA],
      [delta_t_display |-> NA],
      [flow_rate_lpm |-> 5],
      [system_message |-> "auto_insufficient", flow_rate_lpm |-> 5] }

\* Snapshots, rings and buffers the call can find
UpdateStatusDisplays ==
    { << NA, NA, NA, NA >>,
      << [na |-> FALSE, val |-> 2000, digits |-> 2],
         [na |-> FALSE, val |-> 2500, digits |-> 2],
         [na |-> FALSE, val |-> 500, digits |-> 2],
         [na |-> FALSE, val |-> 872, digits |-> 1] >> }
UpdateStatusHistories ==
    { << >>, << [inlet |-> 2000, outlet |-> 2500] >> }
UpdateStatusLogs ==
    { << >>, << [inlet_temp_c |-> 2000, outlet_temp_c |-> 2500] >> }

InitUpdateStatus ==
    /\ current_settings = InitialSettings
    /\ \E shown \in UpdateStatusDisplays :
         app_status = [ inlet_temp_display |-> shown[1],
                        outlet_temp_display |-> shown[2],
                        delta_t_display |-> shown[3], thermal_power_watts |-> shown[4],
                        pump_speed |-> 0, target_pump_speed |-> 0,
                        system_message |-> "web_server_started",
                        optimal_pump_speed_found |-> InitialSettings.MIN_PUMP_SPEED,
                        max_delta_t_found_display |-> NA,
                        control_mode |-> InitialSettings.CONTROL_MODE ]
    /\ pwm_pump = "PWM"
    /\ pwm_duty = 0
    /\ control_thread_running = TRUE
    /\ pc = "call"
    /\ control_mode = "auto"
    /\ due = FALSE
    /\ elapsed = 0
    /\ since_top = 0
    /\ opt = NoOpt
    /\ cyc = NoCyc
    /\ eng = NoEng
    /\ http = "idle"
    /\ http_count = 0
    /\ \E items \in UpdateStatusHistories :
         temperature_history =
             [EmptyDeque(InitialSettings.MAX_HISTORY_POINTS) EXCEPT !.items = items]
    /\ log_buffer \in UpdateStatusLogs
    /\ fx = [called |-> FALSE, kwargs |-> [system_message |-> "none"],
             before |-> app_status, history_before |-> temperature_history,
             log_before |-> log_buffer]
    /\ log_pending = (log_buffer # << >>)
    /\ manual_ticked = FALSE
    /\ stop_pc = "none"

\* update_status(**kwargs), lines 327-335
CallUpdateStatus ==
    /\ pc = "call"
    /\ \E kwargs \in UpdateStatusCalls :
         /\ app_status' = update_status(app_status, kwargs)
         /\ fx' = [called |-> TRUE, kwargs |-> kwargs, before |-> app_status,
                   history_before |-> temperature_history,
                   log_before |-> log_buffer]
    /\ UNCHANGED << current_settings, thread_vars, control_thread_running,
                    history_vars, http, http_count, log_pending, store_vars,
                    manual_ticked, stop_pc >>

NextUpdateStatus == CallUpdateStatus

SpecUpdateStatus == InitUpdateStatus /\ [][NextUpdateStatus]_vars

\* C37: update_status sets the named fields that exist in the snapshot and
\* changes no other field (in particular not the temperature displays or the
\* power), adds no field for a name that is not a snapshot field, and appends
\* nothing to the history ring or the log buffer.
C37_UpdateStatusFrame ==
    fx.called
        => /\ DOMAIN app_status = DOMAIN fx.before
           /\ \A k \in DOMAIN app_status :
                app_status[k] = IF k \in DOMAIN fx.kwargs THEN fx.kwargs[k]
                                ELSE fx.before[k]
           /\ temperature_history = fx.history_before
           /\ log_buffer = fx.log_before

\* A call naming a message and a name outside the snapshot has left a recorded
\* pair's display fields, the power, the ring and the buffer as they were
C37_Witness ==
    /\ fx.called
    /\ fx.kwargs = [system_message |-> "auto_insufficient", flow_rate_lpm |-> 5]
    /\ app_status.system_message = "auto_insufficient"
    /\ app_status.inlet_temp_display = [na |-> FALSE, val |-> 2000, digits |-> 2]
    /\ app_status.thermal_power_watts = [na |-> FALSE, val |-> 872, digits |-> 1]
    /\ fx.before.system_message = "opt_stabilizing"
    /\ temperature_history.items # << >>
    /\ log_buffer # << >>

----------------------------------------------------------------------------
(* The unit of the points in the history ring *)

\* The points a valid reading pair of the store gives in degrees Celsius
CelsiusPoints ==
    { [inlet |-> Round2(inlet), outlet |-> Round2(outlet)] :
        inlet \in StoreInlets \ {None}, outlet \in StoreOutlets \ {None} }

\* C38: every point of the history ring holds its inlet and outlet in degrees
\* Celsius (or null) whatever DISPLAY_TEMP_UNIT was when it was recorded, so
\* all non-null points of the window are in one unit.
C38_HistoryStoredInCelsius ==
    \A i \in 1 .. Len(temperature_history.items) :
        \/ temperature_history.items[i] = NullPoint
        \/ temperature_history.items[i] \in CelsiusPoints

----------------------------------------------------------------------------
(* Sweeps over the candidates 20, 30 and 40 on panels that fix the reading  *)
(* pair delivered at each duty.  The pairs include equal delta-T at         *)
(* different speeds, an inlet of exactly 0.0 C and a missing inlet.         *)
(* fx.panel is the panel of the run.                                        *)

PanelSettings == [InitialSettings EXCEPT !.MAX_PUMP_SPEED = 40]
PanelSpeeds == PyRange(PanelSettings.MIN_PUMP_SPEED, PanelSettings.MAX_PUMP_SPEED + 1,
                       PanelSettings.PUMP_SPEED_STEP)
\* << inlet, outlet >> as read_temp_c returns them, in milli-degrees
PanelPairs == { << 30000, 36000 >>, << 30000, 34000 >>, << 0, 36000 >>,
                << None, 36000 >> }
Panels == [PanelSpeeds -> PanelPairs]

\* The pair the sensors deliver while the pump runs at this duty
PanelPair(duty) ==
    IF duty \in PanelSpeeds THEN fx.panel[duty] ELSE << 30000, 36000 >>

InitPanel ==
    /\ current_settings = PanelSettings
    /\ app_status = [ pump_speed |-> 0, target_pump_speed |-> 0,
                      system_message |-> "pwm_initialized",
                      optimal_pump_speed_found |-> PanelSettings.MIN_PUMP_SPEED,
                      max_delta_t_found_display |-> NA,
                      control_mode |-> PanelSettings.CONTROL_MODE ]
    /\ pwm_pump = "PWM"
    /\ pwm_duty = 0
    /\ control_thread_running = TRUE
    /\ pc = "loop_top"
    /\ control_mode = "auto"
    /\ due = FALSE
    /\ elapsed = PanelSettings.LOOP_INTERVAL_S
    /\ since_top = 0
    /\ opt = NoOpt
    /\ cyc = NoCyc
    /\ eng = NoEng
    /\ http = "idle"
    /\ http_count = 0
    /\ \E panel \in Panels : fx = [panel |-> panel]
    /\ log_pending = FALSE
    /\ log_buffer = << >>
    /\ temperature_history = EmptyDeque(InitialSettings.MAX_HISTORY_POINTS)
    /\ manual_ticked = FALSE
    /\ stop_pc = "none"

PanelAutoEvaluate == AutoEvaluateWith(PanelPair(pwm_duty)[1], PanelPair(pwm_duty)[2])
PanelOptEntry == OptEntryWith(PanelPair(pwm_duty)[1])
PanelOptSample == OptSampleWith(PanelPair(pwm_duty)[1], PanelPair(pwm_duty)[2])
PanelOptConcludeFound ==
    LET final == PanelPair(ActualDutyCycle(current_settings, opt.opt_speed))
    IN  OptConcludeFoundWith(final[1], final[2])

\* Every sweep lasts at least LOOP_INTERVAL_S, so each iteration finds the
\* evaluation due (line 426)
NextPanel ==
    \/ LoopTop
    \/ PanelAutoEvaluate
    \/ PanelOptEntry
    \/ OptIter
    \/ OptStabilize
    \/ PanelOptSample
    \/ PanelOptConcludeFound
    \/ OptConcludeNone
    \/ Housekeeping

SpecPanel == InitPanel /\ [][NextPanel]_vars

\* The lowest speed among those whose sample is in `counted` and reaches the
\* largest delta-T of the counted samples; 0 when no sample is counted
LowestBest(counted) ==
    LET dt(s) == fx.panel[s][2] - fx.panel[s][1]
        best == { s \in counted : \A t \in counted : dt(t) <= dt(s) }
    IN  IF counted = {} THEN 0
        ELSE CHOOSE s \in best : \A t \in best : s <= t

\* The engine has concluded a sweep of all candidates with an optimum
OptimumChosen ==
    pc = "housekeeping" /\ eng.outcome = "concluded" /\ eng.samples = 3

\* Among the samples the engine compares (line 367), ties go to the lower speed
LowestAmongCompared ==
    OptimumChosen
        => app_status.optimal_pump_speed_found
             = LowestBest({ s \in PanelSpeeds :
                              Truthy(fx.panel[s][1]) /\ Truthy(fx.panel[s][2]) })

\* C39: in a sweep that tests all candidates the optimum is the lowest speed
\* among those that reached the largest delta-T over all samples in which both
\* readings are present.
C39_LowestSpeedWithMaxDeltaT ==
    OptimumChosen
        => app_status.optimal_pump_speed_found
             = LowestBest({ s \in PanelSpeeds :
                              fx.panel[s][1] # None /\ fx.panel[s][2] # None })

----------------------------------------------------------------------------
(* The control mode in the snapshot and in the configuration.  The settings *)
(* form carries every key of DEFAULT_SETTINGS, CONTROL_MODE included.       *)

ModeForms == {"auto", "manual"}

\* settings_page POST, lines 564-601, for a form that changes CONTROL_MODE
ModeSettingsApply ==
    /\ http = "idle"
    /\ http_count < MaxHttpRequests
    /\ http_count' = http_count + 1
    /\ \E form_value \in ModeForms :
         LET new_settings_candidate ==
                 [current_settings EXCEPT !.CONTROL_MODE = form_value]
         IN  /\ new_settings_candidate # current_settings
             /\ current_settings' = new_settings_candidate
    /\ http' = "saving"
    /\ UNCHANGED << app_status, thread_vars, control_thread_running, history_vars, fx >>
    /\ UNCHANGED << log_pending, manual_ticked, stop_pc >>
    /\ UNCHANGED store_vars

NextMode ==
    \/ LoopTop
    \/ ManualHold
    \/ ManualObserve
    \/ AutoIdle
    \/ HysteresisAutoEvaluate
    \/ HysteresisOptEntry
    \/ OptIter
    \/ OptStabilize
    \/ HysteresisOptSample
    \/ HysteresisOptConcludeFound
    \/ OptConcludeNone
    \/ Housekeeping
    \/ SetControlMode
    \/ SetManualPumpSpeed
    \/ ModeSettingsApply
    \/ SettingsSave

SpecMode == InitHysteresis /\ [][NextMode]_vars

\* C40: whenever no settings request is in progress, the control mode of the
\* snapshot equals the control mode of the active configuration, also after a
\* settings update whose save to file failed.
C40_PublishedModeIsActiveMode ==
    http = "idle" => app_status.control_mode = current_settings.CONTROL_MODE

====
